---- MODULE Spec2Model ----
(***************************************************************************)
(* Slashing-protection database of the validator client                    *)
(* (validator_client/slashing_protection/src/slashing_database.rs).        *)
(*                                                                         *)
(* The committed database is the record `db`: the validators table (a      *)
(* sequence, the row id being the position), the signed_blocks and         *)
(* signed_attestations tables (bags of rows: SQL tables without ORDER BY), *)
(* and the lower_bounds table (a set of rows, one per validator_id).       *)
(* Every public operation is an operator from a database to the pair       *)
(* [db, res] of the committed database and the returned value; a           *)
(* transaction that is dropped before commit returns the database it       *)
(* started from.                                                           *)
(***************************************************************************)
EXTENDS Integers, Sequences, FiniteSets, Bags, TLC

(***************************************************************************)
(* Bounds of the model and input domains.                                  *)
(***************************************************************************)
MaxSlot == 1

MaxEpoch == 2

MaxRows == 3

Keys == {1, 2}

Slots == 0..MaxSlot

Epochs == 0..MaxEpoch

\* Hash256::zero(), the signing root given to interchange records without one.
ZeroHash == 0

Roots == {ZeroHash, 1}

\* Genesis validators roots: the client's own and a foreign one.
GenesisRoots == {"client_root", "other_root"}

SUPPORTED_INTERCHANGE_FORMAT_VERSION == 3

(***************************************************************************)
(* Option<T>: None is the empty sequence, Some(x) a sequence of one.       *)
(***************************************************************************)
None == <<>>

Some(x) == <<x>>

IsSome(o) == o # <<>>

Unwrap(o) == o[1]

OptionOf(S) == {None} \cup {Some(x) : x \in S}

SetMax(S) == CHOOSE x \in S : \A y \in S : y <= x

SetMin(S) == CHOOSE x \in S : \A y \in S : x <= y

(***************************************************************************)
(* Public keys are stored and exported as hex text.                        *)
(***************************************************************************)
to_hex_string(pk) == <<"0x", pk>>

pubkey_from_str(s) == s[2]

(***************************************************************************)
(* Results: Safe::{Valid, SameData}, NotSafe::*, InterchangeError::*.      *)
(***************************************************************************)
Valid == [tag |-> "Valid"]

SameData == [tag |-> "SameData"]

OkUnit == [tag |-> "Ok"]

SQLError == [tag |-> "SQLError"]

UnregisteredValidator(pk) == [tag |-> "UnregisteredValidator", pubkey |-> pk]

SlotViolatesLowerBound(slot, bound) ==
    [tag |-> "SlotViolatesLowerBound", block_slot |-> slot, bound_slot |-> bound]

DoubleBlockProposal(existing) == [tag |-> "DoubleBlockProposal", existing |-> existing]

SourceExceedsTarget == [tag |-> "SourceExceedsTarget"]

SourceLessThanLowerBound(source, bound) ==
    [tag |-> "SourceLessThanLowerBound", source_epoch |-> source, bound_epoch |-> bound]

TargetLessThanOrEqLowerBound(target, bound) ==
    [tag |-> "TargetLessThanOrEqLowerBound", target_epoch |-> target, bound_epoch |-> bound]

DoubleVote(existing) == [tag |-> "DoubleVote", existing |-> existing]

PrevSurroundsNew(prev) == [tag |-> "PrevSurroundsNew", prev |-> prev]

NewSurroundsPrev(prev) == [tag |-> "NewSurroundsPrev", prev |-> prev]

InvalidBlockTags == {"SlotViolatesLowerBound", "DoubleBlockProposal"}

InvalidAttestationTags ==
    {"SourceExceedsTarget", "SourceLessThanLowerBound", "TargetLessThanOrEqLowerBound",
     "DoubleVote", "PrevSurroundsNew", "NewSurroundsPrev"}

SafeTags == {"Valid", "SameData"}

IsSafe(r) == r.tag \in SafeTags

(***************************************************************************)
(* The database created by SlashingDatabase::create: four empty tables.    *)
(***************************************************************************)
EmptyDb ==
    [validators |-> <<>>,
     signed_blocks |-> EmptyBag,
     signed_attestations |-> EmptyBag,
     lower_bounds |-> {}]

\* SignedBlock::from_row and SignedAttestation::from_row drop the validator id.
SignedBlock_from_row(row) == [slot |-> row.slot, signing_root |-> row.signing_root]

SignedAttestation_from_row(row) ==
    [source_epoch |-> row.source_epoch, target_epoch |-> row.target_epoch,
     signing_root |-> row.signing_root]

(***************************************************************************)
(* validators table.                                                       *)
(***************************************************************************)
get_validator_id_opt(d, pk) ==
    LET ids == {i \in 1..Len(d.validators) : d.validators[i] = to_hex_string(pk)}
    IN  IF ids = {} THEN None ELSE Some(SetMin(ids))

\* A variant of the lookup below that answers row id 0 for a key that has no row.
get_validator_id_in_txn_unchecked(d, pk) ==
    LET id == get_validator_id_opt(d, pk)
    IN  IF IsSome(id) THEN [ok |-> TRUE, id |-> Unwrap(id)]
        ELSE [ok |-> TRUE, id |-> 0]

get_validator_id_in_txn(d, pk) ==
    LET id == get_validator_id_opt(d, pk)
    IN  IF IsSome(id) THEN [ok |-> TRUE, id |-> Unwrap(id)]
        ELSE [ok |-> FALSE, err |-> UnregisteredValidator(pk)]

\* INSERT INTO validators (public_key): public_key is UNIQUE, the id is the next row id.
insert_validator(d, pk) ==
    IF \E i \in 1..Len(d.validators) : d.validators[i] = to_hex_string(pk)
    THEN [ok |-> FALSE, db |-> d]
    ELSE [ok |-> TRUE, db |-> [d EXCEPT !.validators = Append(@, to_hex_string(pk))]]

\* A variant of the loop below that runs the INSERT without looking the key up first.
RECURSIVE register_validators_in_txn_no_lookup(_, _)
register_validators_in_txn_no_lookup(d, public_keys) ==
    IF public_keys = <<>> THEN [ok |-> TRUE, db |-> d]
    ELSE LET ins == insert_validator(d, Head(public_keys))
         IN  IF ins.ok THEN register_validators_in_txn_no_lookup(ins.db, Tail(public_keys))
             ELSE [ok |-> FALSE, db |-> d]

RECURSIVE register_validators_in_txn(_, _)
register_validators_in_txn(d, public_keys) ==
    IF public_keys = <<>> THEN [ok |-> TRUE, db |-> d]
    ELSE IF IsSome(get_validator_id_opt(d, Head(public_keys)))
         THEN register_validators_in_txn(d, Tail(public_keys))
         ELSE LET ins == insert_validator(d, Head(public_keys))
              IN  IF ins.ok THEN register_validators_in_txn(ins.db, Tail(public_keys))
                  ELSE [ok |-> FALSE, db |-> d]

register_validators(d, public_keys) ==
    LET r == register_validators_in_txn(d, public_keys)
    IN  IF r.ok THEN [db |-> r.db, res |-> OkUnit] ELSE [db |-> d, res |-> SQLError]

register_validator(d, pk) == register_validators(d, <<pk>>)

get_validator_id(d, pk) ==
    LET r == get_validator_id_in_txn(d, pk)
    IN  IF r.ok THEN [db |-> d, res |-> [tag |-> "Ok", id |-> r.id]]
        ELSE [db |-> d, res |-> r.err]

num_validator_rows(d) == Len(d.validators)

(***************************************************************************)
(* lower_bounds table.                                                     *)
(***************************************************************************)
LowerBound_default ==
    [block_proposal_slot |-> None,
     attestation_source_epoch |-> None,
     attestation_target_epoch |-> None]

monotonic_update(old, new) ==
    IF IsSome(old) /\ IsSome(new)
    THEN (IF Unwrap(new) > Unwrap(old) THEN new ELSE old)
    ELSE IF IsSome(old) THEN old ELSE new

LowerBound_update(self, other) ==
    [block_proposal_slot |->
        monotonic_update(self.block_proposal_slot, other.block_proposal_slot),
     attestation_source_epoch |->
        monotonic_update(self.attestation_source_epoch, other.attestation_source_epoch),
     attestation_target_epoch |->
        monotonic_update(self.attestation_target_epoch, other.attestation_target_epoch)]

get_lower_bound(d, validator_id) ==
    LET rows == {r \in d.lower_bounds : r.validator_id = validator_id}
    IN  IF rows = {} THEN None
        ELSE LET r == CHOOSE r \in rows : TRUE
             IN  Some([block_proposal_slot |-> r.block_proposal_slot,
                       attestation_source_epoch |-> r.attestation_source_epoch,
                       attestation_target_epoch |-> r.attestation_target_epoch])

\* A variant of the statement below that keeps the row a validator already has
\* (INSERT OR IGNORE).
set_lower_bound_keep_existing(d, validator_id, lower_bound) ==
    IF \E r \in d.lower_bounds : r.validator_id = validator_id THEN d
    ELSE [d EXCEPT !.lower_bounds =
            @ \cup {[validator_id |-> validator_id,
                     block_proposal_slot |-> lower_bound.block_proposal_slot,
                     attestation_source_epoch |-> lower_bound.attestation_source_epoch,
                     attestation_target_epoch |-> lower_bound.attestation_target_epoch]}]

\* REPLACE INTO lower_bounds: the row of the same validator_id (UNIQUE) is replaced.
set_lower_bound(d, validator_id, lower_bound) ==
    [d EXCEPT !.lower_bounds =
        {r \in @ : r.validator_id # validator_id}
        \cup {[validator_id |-> validator_id,
               block_proposal_slot |-> lower_bound.block_proposal_slot,
               attestation_source_epoch |-> lower_bound.attestation_source_epoch,
               attestation_target_epoch |-> lower_bound.attestation_target_epoch]}]

num_lower_bound_rows(d) == Cardinality(d.lower_bounds)

(***************************************************************************)
(* signed_blocks table.                                                    *)
(***************************************************************************)
\* The rows of signed_blocks found through the index that UNIQUE (validator_id, slot)
\* creates; the variant binds the two key values in the wrong order.
signed_blocks_by_key_swapped(d, validator_id, slot) ==
    {r \in BagToSet(d.signed_blocks) : r.validator_id = slot /\ r.slot = validator_id}

signed_blocks_by_key(d, validator_id, slot) ==
    {r \in BagToSet(d.signed_blocks) : r.validator_id = validator_id /\ r.slot = slot}

\* SELECT slot, signing_root FROM signed_blocks WHERE validator_id = ?1 AND slot = ?2
select_block(d, validator_id, slot) ==
    LET rows == signed_blocks_by_key(d, validator_id, slot)
    IN  IF rows = {} THEN None
        ELSE Some(SignedBlock_from_row(CHOOSE r \in rows : TRUE))

\* A variant of the check below that takes any block stored at the slot for a replay.
check_block_proposal_any_root(d, validator_pubkey, slot, signing_root) ==
    LET v == get_validator_id_in_txn(d, validator_pubkey)
    IN  IF ~v.ok THEN v.err
        ELSE LET lb == get_lower_bound(d, v.id)
                 lower_bound_slot ==
                    IF IsSome(lb) THEN Unwrap(lb).block_proposal_slot ELSE None
             IN  IF IsSome(lower_bound_slot) /\ slot <= Unwrap(lower_bound_slot)
                 THEN SlotViolatesLowerBound(slot, Unwrap(lower_bound_slot))
                 ELSE IF IsSome(select_block(d, v.id, slot)) THEN SameData ELSE Valid

\* A variant of the check below whose lower bound is exclusive: the bound slot itself
\* may be signed.
check_block_proposal_exclusive_bound(d, validator_pubkey, slot, signing_root) ==
    LET v == get_validator_id_in_txn(d, validator_pubkey)
    IN  IF ~v.ok THEN v.err
        ELSE LET lb == get_lower_bound(d, v.id)
                 lower_bound_slot ==
                    IF IsSome(lb) THEN Unwrap(lb).block_proposal_slot ELSE None
             IN  IF IsSome(lower_bound_slot) /\ slot < Unwrap(lower_bound_slot)
                 THEN SlotViolatesLowerBound(slot, Unwrap(lower_bound_slot))
                 ELSE LET existing_block == select_block(d, v.id, slot)
                      IN  IF IsSome(existing_block)
                          THEN (IF Unwrap(existing_block).signing_root = signing_root
                                THEN SameData
                                ELSE DoubleBlockProposal(Unwrap(existing_block)))
                          ELSE Valid

\* A variant of the check below that looks for a block at the slot before it tests the
\* lower bound.
check_block_proposal_lookup_first(d, validator_pubkey, slot, signing_root) ==
    LET v == get_validator_id_in_txn(d, validator_pubkey)
    IN  IF ~v.ok THEN v.err
        ELSE LET lb == get_lower_bound(d, v.id)
                 lower_bound_slot ==
                    IF IsSome(lb) THEN Unwrap(lb).block_proposal_slot ELSE None
                 existing_block == select_block(d, v.id, slot)
             IN  IF IsSome(existing_block)
                 THEN (IF Unwrap(existing_block).signing_root = signing_root
                       THEN SameData
                       ELSE DoubleBlockProposal(Unwrap(existing_block)))
                 ELSE IF IsSome(lower_bound_slot) /\ slot <= Unwrap(lower_bound_slot)
                 THEN SlotViolatesLowerBound(slot, Unwrap(lower_bound_slot))
                 ELSE Valid

check_block_proposal(d, validator_pubkey, slot, signing_root) ==
    LET v == get_validator_id_in_txn(d, validator_pubkey)
    IN  IF ~v.ok THEN v.err
        ELSE LET lb == get_lower_bound(d, v.id)
                 lower_bound_slot ==
                    IF IsSome(lb) THEN Unwrap(lb).block_proposal_slot ELSE None
             IN  IF IsSome(lower_bound_slot) /\ slot <= Unwrap(lower_bound_slot)
                 THEN SlotViolatesLowerBound(slot, Unwrap(lower_bound_slot))
                 ELSE LET existing_block == select_block(d, v.id, slot)
                      IN  IF IsSome(existing_block)
                          THEN (IF Unwrap(existing_block).signing_root = signing_root
                                THEN SameData
                                ELSE DoubleBlockProposal(Unwrap(existing_block)))
                          ELSE Valid

\* A variant of the INSERT below that also makes the slot the block lower bound of the
\* validator.
insert_block_proposal_and_bound(d, validator_pubkey, slot, signing_root) ==
    LET v == get_validator_id_in_txn(d, validator_pubkey)
    IN  IF ~v.ok THEN [ok |-> FALSE, err |-> v.err]
        ELSE LET row == [validator_id |-> v.id, slot |-> slot, signing_root |-> signing_root]
             IN  IF \/ v.id \notin 1..Len(d.validators)
                    \/ signed_blocks_by_key(d, v.id, slot) # {}
                 THEN [ok |-> FALSE, err |-> SQLError]
                 ELSE [ok |-> TRUE,
                       db |-> set_lower_bound(
                                 [d EXCEPT !.signed_blocks = @ (+) SetToBag({row})], v.id,
                                 [LowerBound_default EXCEPT
                                    !.block_proposal_slot = Some(slot)])]

\* INSERT INTO signed_blocks: fails on an unregistered validator (get_validator_id_in_txn),
\* on the FOREIGN KEY and on UNIQUE (validator_id, slot).
insert_block_proposal(d, validator_pubkey, slot, signing_root) ==
    LET v == get_validator_id_in_txn(d, validator_pubkey)
    IN  IF ~v.ok THEN [ok |-> FALSE, err |-> v.err]
        ELSE LET row == [validator_id |-> v.id, slot |-> slot, signing_root |-> signing_root]
             IN  IF \/ v.id \notin 1..Len(d.validators)
                    \/ signed_blocks_by_key(d, v.id, slot) # {}
                 THEN [ok |-> FALSE, err |-> SQLError]
                 ELSE [ok |-> TRUE,
                       db |-> [d EXCEPT !.signed_blocks = @ (+) SetToBag({row})]]

\* A variant that inserts whatever the check returned and hands the error back afterwards.
check_and_insert_block_signing_root_no_rollback(d, validator_pubkey, slot, signing_root) ==
    LET safe == check_block_proposal(d, validator_pubkey, slot, signing_root)
        ins == insert_block_proposal(d, validator_pubkey, slot, signing_root)
    IN  IF safe = SameData \/ ~ins.ok THEN [db |-> d, res |-> safe]
        ELSE [db |-> ins.db, res |-> safe]

\* A variant that runs the INSERT for SameData too.
check_and_insert_block_signing_root_always_insert(d, validator_pubkey, slot, signing_root) ==
    LET safe == check_block_proposal(d, validator_pubkey, slot, signing_root)
        ins == insert_block_proposal(d, validator_pubkey, slot, signing_root)
    IN  IF ~IsSafe(safe) THEN [db |-> d, res |-> safe]
        ELSE IF ins.ok THEN [db |-> ins.db, res |-> safe]
        ELSE [db |-> d, res |-> ins.err]

\* One exclusive transaction on database d: `safe` is the result of the check and `ins`
\* that of the INSERT, which runs unless the check returned SameData.  Every `?` drops
\* the transaction, which rolls it back; otherwise txn.commit().
check_and_insert(d, safe, ins) ==
    IF ~IsSafe(safe) THEN [db |-> d, res |-> safe]
    ELSE IF safe # SameData
         THEN (IF ins.ok THEN [db |-> ins.db, res |-> safe]
               ELSE [db |-> d, res |-> ins.err])
         ELSE [db |-> d, res |-> safe]

check_and_insert_block_signing_root(d, validator_pubkey, slot, signing_root) ==
    check_and_insert(d,
                     check_block_proposal(d, validator_pubkey, slot, signing_root),
                     insert_block_proposal(d, validator_pubkey, slot, signing_root))

(***************************************************************************)
(* signed_attestations table.                                              *)
(***************************************************************************)
\* The rows of signed_attestations found through the index that
\* UNIQUE (validator_id, target_epoch) creates; the variant binds the two key values in
\* the wrong order.
signed_attestations_by_key_swapped(d, validator_id, target_epoch) ==
    {r \in BagToSet(d.signed_attestations) :
        r.validator_id = target_epoch /\ r.target_epoch = validator_id}

signed_attestations_by_key(d, validator_id, target_epoch) ==
    {r \in BagToSet(d.signed_attestations) :
        r.validator_id = validator_id /\ r.target_epoch = target_epoch}

\* A variant of the query below that finds no attestation with the target epoch.
select_same_target_att_none(d, validator_id, att_target_epoch) ==
    None

\* SELECT ... FROM signed_attestations WHERE validator_id = ?1 AND target_epoch = ?2
select_same_target_att(d, validator_id, att_target_epoch) ==
    LET rows == signed_attestations_by_key(d, validator_id, att_target_epoch)
    IN  IF rows = {} THEN None
        ELSE Some(SignedAttestation_from_row(CHOOSE r \in rows : TRUE))

\* ORDER BY target_epoch DESC LIMIT 1
greatest_target(rows) ==
    IF rows = {} THEN None
    ELSE Some(SignedAttestation_from_row(
            CHOOSE r \in rows : \A o \in rows : o.target_epoch <= r.target_epoch))

\* A variant of the query below whose comparison of the source epochs is not strict.
select_surrounding_attestation_not_strict(d, validator_id, att_source_epoch, att_target_epoch) ==
    greatest_target({r \in BagToSet(d.signed_attestations) :
                        /\ r.validator_id = validator_id
                        /\ r.source_epoch <= att_source_epoch
                        /\ r.target_epoch > att_target_epoch})

\* WHERE validator_id = ?1 AND source_epoch < ?2 AND target_epoch > ?3
select_surrounding_attestation(d, validator_id, att_source_epoch, att_target_epoch) ==
    greatest_target({r \in BagToSet(d.signed_attestations) :
                        /\ r.validator_id = validator_id
                        /\ r.source_epoch < att_source_epoch
                        /\ r.target_epoch > att_target_epoch})

\* A variant of the query below that never finds a surrounded attestation.
select_surrounded_attestation_none(d, validator_id, att_source_epoch, att_target_epoch) ==
    None

\* A variant of the query below that orders by target_epoch ASC.
select_surrounded_attestation_least_target(d, validator_id, att_source_epoch, att_target_epoch) ==
    LET rows == {r \in BagToSet(d.signed_attestations) :
                    /\ r.validator_id = validator_id
                    /\ r.source_epoch > att_source_epoch
                    /\ r.target_epoch < att_target_epoch}
    IN  IF rows = {} THEN None
        ELSE Some(SignedAttestation_from_row(
                CHOOSE r \in rows : \A o \in rows : r.target_epoch <= o.target_epoch))

\* WHERE validator_id = ?1 AND source_epoch > ?2 AND target_epoch < ?3
select_surrounded_attestation(d, validator_id, att_source_epoch, att_target_epoch) ==
    greatest_target({r \in BagToSet(d.signed_attestations) :
                        /\ r.validator_id = validator_id
                        /\ r.source_epoch > att_source_epoch
                        /\ r.target_epoch < att_target_epoch})

\* A variant of the check below whose target lower bound is exclusive: the bound epoch
\* itself may be the target of a new attestation.
check_attestation_exclusive_target_bound(d, validator_pubkey, att_source_epoch, att_target_epoch, att_signing_root) ==
    IF att_source_epoch > att_target_epoch THEN SourceExceedsTarget
    ELSE
    LET v == get_validator_id_in_txn(d, validator_pubkey)
    IN  IF ~v.ok THEN v.err
        ELSE
        LET lb == get_lower_bound(d, v.id)
            source_lower_bound ==
                IF IsSome(lb) THEN Unwrap(lb).attestation_source_epoch ELSE None
            target_lower_bound ==
                IF IsSome(lb) THEN Unwrap(lb).attestation_target_epoch ELSE None
            same_target_att == select_same_target_att(d, v.id, att_target_epoch)
            surrounding_attestation ==
                select_surrounding_attestation(d, v.id, att_source_epoch, att_target_epoch)
            surrounded_attestation ==
                select_surrounded_attestation(d, v.id, att_source_epoch, att_target_epoch)
        IN  IF IsSome(source_lower_bound) /\ att_source_epoch < Unwrap(source_lower_bound)
            THEN SourceLessThanLowerBound(att_source_epoch, Unwrap(source_lower_bound))
            ELSE IF IsSome(target_lower_bound)
                    /\ att_target_epoch < Unwrap(target_lower_bound)
            THEN TargetLessThanOrEqLowerBound(att_target_epoch, Unwrap(target_lower_bound))
            ELSE IF IsSome(same_target_att)
            THEN (IF Unwrap(same_target_att).signing_root = att_signing_root
                  THEN SameData
                  ELSE DoubleVote(Unwrap(same_target_att)))
            ELSE IF IsSome(surrounding_attestation)
            THEN PrevSurroundsNew(Unwrap(surrounding_attestation))
            ELSE IF IsSome(surrounded_attestation)
            THEN NewSurroundsPrev(Unwrap(surrounded_attestation))
            ELSE Valid

\* A variant of the check below that resolves the validator before it compares source
\* and target.
check_attestation_resolve_first(d, validator_pubkey, att_source_epoch, att_target_epoch, att_signing_root) ==
    LET v == get_validator_id_in_txn(d, validator_pubkey)
    IN  IF ~v.ok THEN v.err
        ELSE IF att_source_epoch > att_target_epoch THEN SourceExceedsTarget
        ELSE
        LET lb == get_lower_bound(d, v.id)
            source_lower_bound ==
                IF IsSome(lb) THEN Unwrap(lb).attestation_source_epoch ELSE None
            target_lower_bound ==
                IF IsSome(lb) THEN Unwrap(lb).attestation_target_epoch ELSE None
            same_target_att == select_same_target_att(d, v.id, att_target_epoch)
            surrounding_attestation ==
                select_surrounding_attestation(d, v.id, att_source_epoch, att_target_epoch)
            surrounded_attestation ==
                select_surrounded_attestation(d, v.id, att_source_epoch, att_target_epoch)
        IN  IF IsSome(source_lower_bound) /\ att_source_epoch < Unwrap(source_lower_bound)
            THEN SourceLessThanLowerBound(att_source_epoch, Unwrap(source_lower_bound))
            ELSE IF IsSome(target_lower_bound)
                    /\ att_target_epoch <= Unwrap(target_lower_bound)
            THEN TargetLessThanOrEqLowerBound(att_target_epoch, Unwrap(target_lower_bound))
            ELSE IF IsSome(same_target_att)
            THEN (IF Unwrap(same_target_att).signing_root = att_signing_root
                  THEN SameData
                  ELSE DoubleVote(Unwrap(same_target_att)))
            ELSE IF IsSome(surrounding_attestation)
            THEN PrevSurroundsNew(Unwrap(surrounding_attestation))
            ELSE IF IsSome(surrounded_attestation)
            THEN NewSurroundsPrev(Unwrap(surrounded_attestation))
            ELSE Valid

check_attestation(d, validator_pubkey, att_source_epoch, att_target_epoch, att_signing_root) ==
    IF att_source_epoch > att_target_epoch THEN SourceExceedsTarget
    ELSE
    LET v == get_validator_id_in_txn(d, validator_pubkey)
    IN  IF ~v.ok THEN v.err
        ELSE
        LET lb == get_lower_bound(d, v.id)
            source_lower_bound ==
                IF IsSome(lb) THEN Unwrap(lb).attestation_source_epoch ELSE None
            target_lower_bound ==
                IF IsSome(lb) THEN Unwrap(lb).attestation_target_epoch ELSE None
            same_target_att == select_same_target_att(d, v.id, att_target_epoch)
            surrounding_attestation ==
                select_surrounding_attestation(d, v.id, att_source_epoch, att_target_epoch)
            surrounded_attestation ==
                select_surrounded_attestation(d, v.id, att_source_epoch, att_target_epoch)
        IN  IF IsSome(source_lower_bound) /\ att_source_epoch < Unwrap(source_lower_bound)
            THEN SourceLessThanLowerBound(att_source_epoch, Unwrap(source_lower_bound))
            ELSE IF IsSome(target_lower_bound)
                    /\ att_target_epoch <= Unwrap(target_lower_bound)
            THEN TargetLessThanOrEqLowerBound(att_target_epoch, Unwrap(target_lower_bound))
            ELSE IF IsSome(same_target_att)
            THEN (IF Unwrap(same_target_att).signing_root = att_signing_root
                  THEN SameData
                  ELSE DoubleVote(Unwrap(same_target_att)))
            ELSE IF IsSome(surrounding_attestation)
            THEN PrevSurroundsNew(Unwrap(surrounding_attestation))
            ELSE IF IsSome(surrounded_attestation)
            THEN NewSurroundsPrev(Unwrap(surrounded_attestation))
            ELSE Valid

\* INSERT INTO signed_attestations: fails on an unregistered validator, on the FOREIGN
\* KEY and on UNIQUE (validator_id, target_epoch).
insert_attestation(d, validator_pubkey, att_source_epoch, att_target_epoch, att_signing_root) ==
    LET v == get_validator_id_in_txn(d, validator_pubkey)
    IN  IF ~v.ok THEN [ok |-> FALSE, err |-> v.err]
        ELSE LET row == [validator_id |-> v.id, source_epoch |-> att_source_epoch,
                         target_epoch |-> att_target_epoch,
                         signing_root |-> att_signing_root]
             IN  IF \/ v.id \notin 1..Len(d.validators)
                    \/ signed_attestations_by_key(d, v.id, att_target_epoch) # {}
                 THEN [ok |-> FALSE, err |-> SQLError]
                 ELSE [ok |-> TRUE,
                       db |-> [d EXCEPT !.signed_attestations = @ (+) SetToBag({row})]]

check_and_insert_attestation_signing_root(d, validator_pubkey, att_source_epoch, att_target_epoch, att_signing_root) ==
    check_and_insert(d,
                     check_attestation(d, validator_pubkey, att_source_epoch,
                                       att_target_epoch, att_signing_root),
                     insert_attestation(d, validator_pubkey, att_source_epoch,
                                        att_target_epoch, att_signing_root))

(***************************************************************************)
(* Interchange import.  A document is                                      *)
(*   [format, version, genesis_validators_root, data]                      *)
(* with data a sequence of Minimal or Complete records.                    *)
(***************************************************************************)
UnsupportedVersion(version) == [tag |-> "UnsupportedVersion", version |-> version]

GenesisValidatorsMismatch(client, interchange_file) ==
    [tag |-> "GenesisValidatorsMismatch", client |-> client,
     interchange_file |-> interchange_file]

MinimalAttestationSourceAndTargetInconsistent ==
    [tag |-> "MinimalAttestationSourceAndTargetInconsistent"]

\* impl From<NotSafe> for InterchangeError
InterchangeError_NotSafe(error) == [tag |-> "NotSafe", error |-> error]

\* A variant of the default below that is not the zero hash.
unwrap_or_one(signing_root) ==
    IF IsSome(signing_root) THEN Unwrap(signing_root) ELSE 1

unwrap_or_zero(signing_root) ==
    IF IsSome(signing_root) THEN Unwrap(signing_root) ELSE ZeroHash

MinimalRecordAsLowerBound(record) ==
    [block_proposal_slot |-> record.last_signed_block_slot,
     attestation_source_epoch |-> record.last_signed_attestation_source_epoch,
     attestation_target_epoch |-> record.last_signed_attestation_target_epoch]

\* A variant of the loop body below that stores the record's values over the old bound.
import_minimal_record_overwrite(t, record) ==
    LET v == get_validator_id_in_txn(t, record.pubkey)
    IN  IF ~v.ok THEN [ok |-> FALSE, err |-> InterchangeError_NotSafe(v.err)]
        ELSE IF IsSome(record.last_signed_attestation_source_epoch)
                # IsSome(record.last_signed_attestation_target_epoch)
        THEN [ok |-> FALSE, err |-> MinimalAttestationSourceAndTargetInconsistent]
        ELSE [ok |-> TRUE,
              db |-> set_lower_bound(t, v.id, MinimalRecordAsLowerBound(record))]

\* A variant of the loop body below that also deletes the blocks of the validator that
\* the new lower bound covers.
import_minimal_record_prune(t, record) ==
    LET v == get_validator_id_in_txn(t, record.pubkey)
    IN  IF ~v.ok THEN [ok |-> FALSE, err |-> InterchangeError_NotSafe(v.err)]
        ELSE IF IsSome(record.last_signed_attestation_source_epoch)
                # IsSome(record.last_signed_attestation_target_epoch)
        THEN [ok |-> FALSE, err |-> MinimalAttestationSourceAndTargetInconsistent]
        ELSE LET old == get_lower_bound(t, v.id)
                 lower_bound ==
                    LowerBound_update(IF IsSome(old) THEN Unwrap(old) ELSE LowerBound_default,
                                      MinimalRecordAsLowerBound(record))
                 kept == {x \in BagToSet(t.signed_blocks) :
                            \/ x.validator_id # v.id
                            \/ lower_bound.block_proposal_slot = None
                            \/ x.slot > Unwrap(lower_bound.block_proposal_slot)}
             IN  [ok |-> TRUE,
                  db |-> set_lower_bound([t EXCEPT !.signed_blocks = SetToBag(kept)],
                                         v.id, lower_bound)]

\* Body of the loop "Update lower bounds" over the records of a Minimal document.
import_minimal_record(t, record) ==
    LET v == get_validator_id_in_txn(t, record.pubkey)
    IN  IF ~v.ok THEN [ok |-> FALSE, err |-> InterchangeError_NotSafe(v.err)]
        ELSE IF IsSome(record.last_signed_attestation_source_epoch)
                # IsSome(record.last_signed_attestation_target_epoch)
        THEN [ok |-> FALSE, err |-> MinimalAttestationSourceAndTargetInconsistent]
        ELSE LET old == get_lower_bound(t, v.id)
                 lower_bound ==
                    LowerBound_update(IF IsSome(old) THEN Unwrap(old) ELSE LowerBound_default,
                                      MinimalRecordAsLowerBound(record))
             IN  [ok |-> TRUE, db |-> set_lower_bound(t, v.id, lower_bound)]

RECURSIVE import_minimal_records(_, _)
import_minimal_records(t, records) ==
    IF records = <<>> THEN [ok |-> TRUE, db |-> t]
    ELSE LET r == import_minimal_record(t, Head(records))
         IN  IF r.ok THEN import_minimal_records(r.db, Tail(records)) ELSE r

\* A variant of the Minimal import below that keeps the registrations when a record is
\* refused.
import_minimal_keep_registrations(d, records) ==
    LET reg == register_validators_in_txn(d, [i \in 1..Len(records) |-> records[i].pubkey])
    IN  IF ~reg.ok THEN [db |-> d, res |-> SQLError]
        ELSE LET r == import_minimal_records(reg.db, records)
             IN  IF r.ok THEN [db |-> r.db, res |-> OkUnit]
                 ELSE [db |-> reg.db, res |-> r.err]

\* InterchangeData::Minimal: one transaction, committed only after the last record.
import_minimal(d, records) ==
    LET reg == register_validators_in_txn(d, [i \in 1..Len(records) |-> records[i].pubkey])
    IN  IF ~reg.ok THEN [db |-> d, res |-> SQLError]
        ELSE LET r == import_minimal_records(reg.db, records)
             IN  IF r.ok THEN [db |-> r.db, res |-> OkUnit] ELSE [db |-> d, res |-> r.err]

\* `?` on the result r of a call made by the import: a result that is not Ok ends the
\* import with the error (From<NotSafe> for InterchangeError) on the database the call
\* left; after Ok the import goes on from that database.
Try(r, rest(_)) ==
    IF r.res = OkUnit \/ IsSafe(r.res) THEN rest(r.db)
    ELSE [db |-> r.db, res |-> InterchangeError_NotSafe(r.res)]

\* The same for the result of a loop of the import, whose error is an InterchangeError.
AndThen(r, rest(_)) == IF r.res = OkUnit THEN rest(r.db) ELSE r

\* The loops over the blocks and attestations of one Complete record: one transaction
\* per item, stopping at the first item that is not Safe.
RECURSIVE import_complete_blocks(_, _, _)
import_complete_blocks(d, pubkey, blocks) ==
    IF blocks = <<>> THEN [db |-> d, res |-> OkUnit]
    ELSE Try(check_and_insert_block_signing_root(
                d, pubkey, Head(blocks).slot, unwrap_or_zero(Head(blocks).signing_root)),
             LAMBDA d1 : import_complete_blocks(d1, pubkey, Tail(blocks)))

RECURSIVE import_complete_attestations(_, _, _)
import_complete_attestations(d, pubkey, attestations) ==
    IF attestations = <<>> THEN [db |-> d, res |-> OkUnit]
    ELSE Try(check_and_insert_attestation_signing_root(
                d, pubkey, Head(attestations).source_epoch,
                Head(attestations).target_epoch,
                unwrap_or_zero(Head(attestations).signing_root)),
             LAMBDA d1 : import_complete_attestations(d1, pubkey, Tail(attestations)))

\* InterchangeData::Complete: nothing spans the records, so what was committed before
\* an error stays.
RECURSIVE import_complete(_, _)
import_complete(d, records) ==
    IF records = <<>> THEN [db |-> d, res |-> OkUnit]
    ELSE Try(register_validator(d, Head(records).pubkey),
             LAMBDA d1 :
                AndThen(import_complete_blocks(d1, Head(records).pubkey,
                                               Head(records).signed_blocks),
                        LAMBDA d2 :
                            AndThen(import_complete_attestations(
                                        d2, Head(records).pubkey,
                                        Head(records).signed_attestations),
                                    LAMBDA d3 : import_complete(d3, Tail(records)))))

\* A variant of the import below that takes the documents of older versions too.
import_interchange_info_older_versions(d, interchange, genesis_validators_root) ==
    IF interchange.version > SUPPORTED_INTERCHANGE_FORMAT_VERSION
    THEN [db |-> d, res |-> UnsupportedVersion(interchange.version)]
    ELSE IF genesis_validators_root # interchange.genesis_validators_root
    THEN [db |-> d,
          res |-> GenesisValidatorsMismatch(genesis_validators_root,
                                            interchange.genesis_validators_root)]
    ELSE IF interchange.format = "Minimal" THEN import_minimal(d, interchange.data)
    ELSE import_complete(d, interchange.data)

\* A variant of the import below that does not compare the genesis validators roots.
import_interchange_info_any_root(d, interchange, genesis_validators_root) ==
    IF interchange.version # SUPPORTED_INTERCHANGE_FORMAT_VERSION
    THEN [db |-> d, res |-> UnsupportedVersion(interchange.version)]
    ELSE IF interchange.format = "Minimal" THEN import_minimal(d, interchange.data)
    ELSE import_complete(d, interchange.data)

\* A variant of the import below whose Complete branch is all-or-nothing: an error
\* leaves the store as it was before the import.
import_interchange_info_atomic(d, interchange, genesis_validators_root) ==
    IF interchange.version # SUPPORTED_INTERCHANGE_FORMAT_VERSION
    THEN [db |-> d, res |-> UnsupportedVersion(interchange.version)]
    ELSE IF genesis_validators_root # interchange.genesis_validators_root
    THEN [db |-> d,
          res |-> GenesisValidatorsMismatch(genesis_validators_root,
                                            interchange.genesis_validators_root)]
    ELSE IF interchange.format = "Minimal" THEN import_minimal(d, interchange.data)
    ELSE [db |-> IF import_complete(d, interchange.data).res = OkUnit
                 THEN import_complete(d, interchange.data).db ELSE d,
          res |-> import_complete(d, interchange.data).res]

import_interchange_info(d, interchange, genesis_validators_root) ==
    IF interchange.version # SUPPORTED_INTERCHANGE_FORMAT_VERSION
    THEN [db |-> d, res |-> UnsupportedVersion(interchange.version)]
    ELSE IF genesis_validators_root # interchange.genesis_validators_root
    THEN [db |-> d,
          res |-> GenesisValidatorsMismatch(genesis_validators_root,
                                            interchange.genesis_validators_root)]
    ELSE IF interchange.format = "Minimal" THEN import_minimal(d, interchange.data)
    ELSE import_complete(d, interchange.data)

(***************************************************************************)
(* Interchange export.                                                     *)
(***************************************************************************)
\* The orders in which a query without ORDER BY may return the rows of a bag.
RECURSIVE RowOrders(_)
RowOrders(B) ==
    IF BagToSet(B) = {} THEN {<<>>}
    ELSE UNION {{<<r>> \o s : s \in RowOrders(B (-) SetToBag({r}))} : r \in BagToSet(B)}

\* Keys of a BTreeMap<String, _> in iteration order.
RECURSIVE BTreeOrder(_)
BTreeOrder(S) ==
    IF S = {} THEN <<>>
    ELSE LET least == CHOOSE x \in S : \A y \in S : x[2] <= y[2]
         IN  <<least>> \o BTreeOrder(S \ {least})

\* The rows each join returns for one public key.
joined_blocks(d, public_key) ==
    LET ids == {i \in 1..Len(d.validators) : d.validators[i] = public_key}
        B == d.signed_blocks
    IN  [r \in {x \in BagToSet(B) : x.validator_id \in ids} |-> B[r]]

joined_attestations(d, public_key) ==
    LET ids == {i \in 1..Len(d.validators) : d.validators[i] = public_key}
        B == d.signed_attestations
    IN  [r \in {x \in BagToSet(B) : x.validator_id \in ids} |-> B[r]]

InterchangeBlock(row) == [slot |-> row.slot, signing_root |-> Some(row.signing_root)]

InterchangeAttestation(row) ==
    [source_epoch |-> row.source_epoch, target_epoch |-> row.target_epoch,
     signing_root |-> Some(row.signing_root)]

\* The data lists export_complete_interchange_info may produce: one record per public
\* key that occurs in either join, in BTreeMap order.
RECURSIVE complete_data(_, _)
complete_data(d, pubkeys) ==
    IF pubkeys = <<>> THEN {<<>>}
    ELSE {<<[pubkey |-> pubkey_from_str(Head(pubkeys)),
             signed_blocks |-> [i \in 1..Len(bs) |-> InterchangeBlock(bs[i])],
             signed_attestations |-> [i \in 1..Len(as) |-> InterchangeAttestation(as[i])]]>>
          \o rest :
            bs \in RowOrders(joined_blocks(d, Head(pubkeys))),
            as \in RowOrders(joined_attestations(d, Head(pubkeys))),
            rest \in complete_data(d, Tail(pubkeys))}

\* A variant of the export below with a record for every row of validators.
export_complete_interchange_info_all_validators(d, genesis_validators_root) ==
    LET pubkeys == {d.validators[i] : i \in 1..Len(d.validators)}
    IN  {[format |-> "Complete",
          version |-> SUPPORTED_INTERCHANGE_FORMAT_VERSION,
          genesis_validators_root |-> genesis_validators_root,
          data |-> data] : data \in complete_data(d, BTreeOrder(pubkeys))}

export_complete_interchange_info(d, genesis_validators_root) ==
    LET pubkeys == {d.validators[r.validator_id] :
                        r \in BagToSet(d.signed_blocks) \cup BagToSet(d.signed_attestations)}
    IN  {[format |-> "Complete",
          version |-> SUPPORTED_INTERCHANGE_FORMAT_VERSION,
          genesis_validators_root |-> genesis_validators_root,
          data |-> data] : data \in complete_data(d, BTreeOrder(pubkeys))}

\* A variant of the query below that finds no block.
get_max_block_slot_none(d, validator_id) == None

\* SELECT MAX(slot) FROM signed_blocks WHERE validator_id = ?1
get_max_block_slot(d, validator_id) ==
    LET rows == {r \in BagToSet(d.signed_blocks) : r.validator_id = validator_id}
    IN  IF rows = {} THEN None ELSE Some(SetMax({r.slot : r \in rows}))

\* A variant of the query below that selects MIN(source_epoch).
get_max_source_and_target_epochs_min_source(d, validator_id) ==
    LET rows == {r \in BagToSet(d.signed_attestations) : r.validator_id = validator_id}
    IN  IF rows = {} THEN <<None, None>>
        ELSE <<Some(SetMin({r.source_epoch : r \in rows})),
               Some(SetMax({r.target_epoch : r \in rows}))>>

\* A variant of the query below that selects MAX(source_epoch) and no target epoch.
get_max_source_and_target_epochs_source_only(d, validator_id) ==
    LET rows == {r \in BagToSet(d.signed_attestations) : r.validator_id = validator_id}
    IN  IF rows = {} THEN <<None, None>>
        ELSE <<Some(SetMax({r.source_epoch : r \in rows})), None>>

\* SELECT MAX(source_epoch), MAX(target_epoch) FROM signed_attestations WHERE validator_id = ?1
get_max_source_and_target_epochs(d, validator_id) ==
    LET rows == {r \in BagToSet(d.signed_attestations) : r.validator_id = validator_id}
    IN  IF rows = {} THEN <<None, None>>
        ELSE <<Some(SetMax({r.source_epoch : r \in rows})),
               Some(SetMax({r.target_epoch : r \in rows}))>>

minimal_record(d, public_key) ==
    LET validator_id == SetMin({i \in 1..Len(d.validators) : d.validators[i] = public_key})
        epochs == get_max_source_and_target_epochs(d, validator_id)
        signed == LowerBound_update(LowerBound_default,
                    [block_proposal_slot |-> get_max_block_slot(d, validator_id),
                     attestation_source_epoch |-> epochs[1],
                     attestation_target_epoch |-> epochs[2]])
        db_lower_bound == get_lower_bound(d, validator_id)
        lower_bound == IF IsSome(db_lower_bound)
                       THEN LowerBound_update(signed, Unwrap(db_lower_bound))
                       ELSE signed
    IN  [pubkey |-> pubkey_from_str(public_key),
         last_signed_block_slot |-> lower_bound.block_proposal_slot,
         last_signed_attestation_source_epoch |-> lower_bound.attestation_source_epoch,
         last_signed_attestation_target_epoch |-> lower_bound.attestation_target_epoch]

export_minimal_interchange_info(d, genesis_validators_root) ==
    LET pubkeys == BTreeOrder({d.validators[i] : i \in 1..Len(d.validators)})
    IN  {[format |-> "Minimal",
          version |-> SUPPORTED_INTERCHANGE_FORMAT_VERSION,
          genesis_validators_root |-> genesis_validators_root,
          data |-> [i \in 1..Len(pubkeys) |-> minimal_record(d, pubkeys[i])]]}

\* A variant of the export below that never looks at the lower_bounds table.
export_interchange_info_complete_only(d, genesis_validators_root) ==
    export_complete_interchange_info(d, genesis_validators_root)

\* The documents export_interchange_info may return when no other operation runs
\* between its count of the lower_bounds rows and its read of the data.
export_interchange_info(d, genesis_validators_root) ==
    IF num_lower_bound_rows(d) > 0
    THEN export_minimal_interchange_info(d, genesis_validators_root)
    ELSE export_complete_interchange_info(d, genesis_validators_root)

(***************************************************************************)
(* State.                                                                  *)
(*   db      the committed database                                        *)
(*   conn    the threads that hold a connection of the pool                *)
(*   pc      where each thread is in its call                              *)
(*   call    the call each thread is making                                *)
(*   txn     the open transaction of each thread: the database as the      *)
(*           transaction sees it, and the result of its check              *)
(*   ret     the value each thread's call returned                         *)
(*   lin     history variables: the database each call was issued on       *)
(*           (start), and the database (db) and results (ret) of the same  *)
(*           calls run one at a time, in the order in which they took the  *)
(*           connection; undone is the database inside the transaction    *)
(*           that the thread's call last gave up without commit            *)
(*   file      what is at the path of the database                         *)
(*   sessions  the SlashingDatabase values that create and open returned   *)
(*             and that were not dropped: their pool and the SQLite lock    *)
(*             their connection holds on the file                          *)
(*   pending   the result of path.exists() of an open_or_create under way  *)
(*   last      the last operation on the file, what it returned, and the   *)
(*             file and sessions it found                                  *)
(***************************************************************************)
VARIABLES db, conn, pc, call, txn, ret, lin, file, sessions, pending, last

vars == <<db, conn, pc, call, txn, ret, lin, file, sessions, pending, last>>

fileVars == <<file, sessions, pending, last>>

threadVars == <<conn, pc, call, txn, ret, lin>>

Threads == {1, 2}

\* A pool with a connection for every thread.
POOL_SIZE_per_thread == Cardinality(Threads)

\* The number of connections of the r2d2 pool.
POOL_SIZE == 1

NoCall == [op |-> "none"]

NoTxn == [db |-> EmptyDb, safe |-> None]

NotRun == [tag |-> "NotRun"]

\* The processes that use the path, and the sessions that can be open at a time.
Procs == {1, 2}

MaxSessions == 2

SessionIds == 1..MaxSessions

NoSession ==
    [via |-> "none", proc |-> 0, max_size |-> 0, foreign_keys |-> FALSE,
     locking_mode |-> "NORMAL", lock |-> "NONE", holders |-> {}]

NoOperation == [op |-> "none"]

Init ==
    /\ file = "absent"
    /\ sessions = [i \in SessionIds |-> NoSession]
    /\ pending = [p \in Procs |-> "none"]
    /\ last = NoOperation
    /\ db = EmptyDb
    /\ conn = {}
    /\ pc = [t \in Threads |-> "idle"]
    /\ call = [t \in Threads |-> NoCall]
    /\ txn = [t \in Threads |-> NoTxn]
    /\ ret = [t \in Threads |-> NotRun]
    /\ lin = [db |-> EmptyDb,
              ret |-> [t \in Threads |-> NotRun],
              start |-> [t \in Threads |-> EmptyDb],
              undone |-> [t \in Threads |-> EmptyDb]]

TotalRows(d) ==
    Len(d.validators) + BagCardinality(d.signed_blocks)
    + BagCardinality(d.signed_attestations) + Cardinality(d.lower_bounds)

(***************************************************************************)
(* Inputs of the interchange operations.                                   *)
(***************************************************************************)
InterchangeDoc(format, version, root, data) ==
    [format |-> format, version |-> version, genesis_validators_root |-> root,
     data |-> data]

MinimalRecord(pk, slot, source, target) ==
    [pubkey |-> pk, last_signed_block_slot |-> slot,
     last_signed_attestation_source_epoch |-> source,
     last_signed_attestation_target_epoch |-> target]

\* Records with a block slot only, with attestation epochs only, with one of the two
\* epochs missing, and with all three values (the merge of the lower bounds is
\* field by field, so successive imports reach every combination).
MinimalRecords ==
    {MinimalRecord(pk, slot, None, None) : pk \in Keys, slot \in OptionOf(Slots)}
    \cup {MinimalRecord(pk, None, Some(source), Some(target)) :
            pk \in Keys, source \in Epochs, target \in Epochs}
    \cup {MinimalRecord(pk, None, Some(0), None) : pk \in Keys}
    \cup {MinimalRecord(pk, None, None, Some(0)) : pk \in Keys}
    \cup {MinimalRecord(pk, Some(slot), Some(target), Some(target)) :
            pk \in Keys, slot \in Slots, target \in {0, MaxEpoch}}

\* Records for the documents of two records.
MinimalRecordsOfPairs ==
    {MinimalRecord(pk, Some(MaxSlot), None, None) : pk \in Keys}
    \cup {MinimalRecord(pk, None, Some(0), Some(1)) : pk \in Keys}
    \cup {MinimalRecord(pk, None, Some(0), None) : pk \in Keys}

MinimalData ==
    {<<>>} \cup {<<r>> : r \in MinimalRecords}
    \cup {<<r1, r2>> : r1 \in MinimalRecordsOfPairs, r2 \in MinimalRecordsOfPairs}

\* Interchange records without signing root get the zero hash, so None covers Some(0).
RootOpts == {None} \cup {Some(r) : r \in Roots \ {ZeroHash}}

BlockItems == {[slot |-> slot, signing_root |-> root] : slot \in Slots, root \in RootOpts}

AttestationItem(source, target, root) ==
    [source_epoch |-> source, target_epoch |-> target, signing_root |-> root]

AttestationItems ==
    {AttestationItem(source, target, root) :
        source \in Epochs, target \in Epochs, root \in RootOpts}

\* Attestations for the lists of two: (0, MaxEpoch) surrounds (1, 1) and shares its
\* target with (1, MaxEpoch); (MaxEpoch, 0) has its source above its target.
AttestationItemsOfPairs ==
    {AttestationItem(e[1], e[2], root) :
        e \in {<<0, MaxEpoch>>, <<1, 1>>, <<1, MaxEpoch>>, <<MaxEpoch, 0>>},
        root \in RootOpts}

CompleteRecord(pk, bs, as) ==
    [pubkey |-> pk, signed_blocks |-> bs, signed_attestations |-> as]

BlockRecords ==
    {CompleteRecord(pk, <<>>, <<>>) : pk \in Keys}
    \cup {CompleteRecord(pk, <<b>>, <<>>) : pk \in Keys, b \in BlockItems}
    \cup {CompleteRecord(pk, <<b1, b2>>, <<>>) :
            pk \in Keys, b1 \in BlockItems, b2 \in BlockItems}

AttestationRecords ==
    {CompleteRecord(pk, <<>>, <<>>) : pk \in Keys}
    \cup {CompleteRecord(pk, <<>>, <<a>>) : pk \in Keys, a \in AttestationItems}
    \cup {CompleteRecord(pk, <<>>, <<a1, a2>>) :
            pk \in Keys, a1 \in AttestationItemsOfPairs, a2 \in AttestationItemsOfPairs}

\* The client's genesis validators root.
ClientRoot == "client_root"

CompleteDoc(data) ==
    InterchangeDoc("Complete", SUPPORTED_INTERCHANGE_FORMAT_VERSION, ClientRoot, data)

MinimalDoc(data) ==
    InterchangeDoc("Minimal", SUPPORTED_INTERCHANGE_FORMAT_VERSION, ClientRoot, data)

\* Complete documents of one record, and of two records with at most one block each.
BlockDocs ==
    {CompleteDoc(<<>>)} \cup {CompleteDoc(<<r>>) : r \in BlockRecords}
    \cup {CompleteDoc(<<r1, r2>>) :
            r1 \in {r \in BlockRecords : Len(r.signed_blocks) <= 1 /\
                        \A i \in 1..Len(r.signed_blocks) : r.signed_blocks[i].slot = 0},
            r2 \in {r \in BlockRecords : Len(r.signed_blocks) = 0}}

AttestationDocs ==
    {CompleteDoc(<<>>)} \cup {CompleteDoc(<<r>>) : r \in AttestationRecords}
    \cup {CompleteDoc(<<r1, r2>>) :
            r1 \in {CompleteRecord(pk, <<>>, <<AttestationItem(e[1], e[2], None)>>) :
                        pk \in Keys, e \in {<<MaxEpoch, 0>>, <<0, MaxEpoch>>}},
            r2 \in {r \in AttestationRecords : Len(r.signed_attestations) = 0}}

MinimalDocs == {MinimalDoc(data) : data \in MinimalData}

\* Minimal documents whose records carry attestation epochs only.
MinimalAttestationDocs ==
    {doc \in MinimalDocs :
        \A i \in 1..Len(doc.data) : doc.data[i].last_signed_block_slot = None}

\* Documents that fail the checks of the metadata.
BadDocs ==
    {doc \in {InterchangeDoc(format, version, root, <<>>) :
                format \in {"Minimal", "Complete"},
                version \in {SUPPORTED_INTERCHANGE_FORMAT_VERSION,
                             SUPPORTED_INTERCHANGE_FORMAT_VERSION - 1,
                             SUPPORTED_INTERCHANGE_FORMAT_VERSION + 1},
                root \in GenesisRoots} :
        doc.version # SUPPORTED_INTERCHANGE_FORMAT_VERSION
        \/ doc.genesis_validators_root # ClientRoot}
    \cup {InterchangeDoc("Minimal", v, root, <<MinimalRecord(1, Some(MaxSlot), None, None)>>) :
            v \in {SUPPORTED_INTERCHANGE_FORMAT_VERSION,
                   SUPPORTED_INTERCHANGE_FORMAT_VERSION - 1},
            root \in GenesisRoots \ {ClientRoot}}
    \cup {InterchangeDoc("Complete", SUPPORTED_INTERCHANGE_FORMAT_VERSION - 1, ClientRoot,
                         <<CompleteRecord(1, <<[slot |-> 0, signing_root |-> None]>>, <<>>)>>)}

\* The documents of Spec, where blocks, attestations and lower bounds meet in one
\* store: Minimal records with a block slot, with attestation epochs, with both, and
\* with a source epoch but no target epoch; Complete records with up to two blocks (two
\* of them at one slot), with up to two attestations (one surrounding another, two with
\* one target, one with its source above its target), and with a block and an
\* attestation.
SpecMinimalRecords ==
    {MinimalRecord(pk, Some(0), None, None) : pk \in Keys}
    \cup {MinimalRecord(pk, None, Some(1), Some(1)) : pk \in Keys}
    \cup {MinimalRecord(pk, Some(1), Some(0), Some(2)) : pk \in Keys}
    \cup {MinimalRecord(pk, None, Some(0), None) : pk \in Keys}

SpecBlockItems ==
    {[slot |-> 0, signing_root |-> None], [slot |-> 0, signing_root |-> Some(1)],
     [slot |-> 1, signing_root |-> None]}

SpecAttestationItems ==
    {AttestationItem(0, 2, None), AttestationItem(1, 1, None),
     AttestationItem(1, 2, Some(1)), AttestationItem(2, 0, None)}

SpecCompleteRecords ==
    {CompleteRecord(pk, <<b>>, <<>>) : pk \in Keys, b \in SpecBlockItems}
    \cup {CompleteRecord(pk, <<b1, b2>>, <<>>) :
            pk \in Keys, b1 \in SpecBlockItems, b2 \in SpecBlockItems}
    \cup {CompleteRecord(pk, <<>>, <<a>>) : pk \in Keys, a \in SpecAttestationItems}
    \cup {CompleteRecord(pk, <<>>, <<a1, a2>>) :
            pk \in Keys, a1 \in SpecAttestationItems, a2 \in SpecAttestationItems}
    \cup {CompleteRecord(pk, <<b>>, <<a>>) :
            pk \in Keys, b \in {x \in SpecBlockItems : x.signing_root = None},
            a \in {x \in SpecAttestationItems : x.source_epoch < x.target_epoch}}

SpecDocs ==
    {MinimalDoc(<<>>), CompleteDoc(<<>>)}
    \cup {MinimalDoc(<<r>>) : r \in SpecMinimalRecords}
    \cup {MinimalDoc(<<r1, r2>>) :
            r1 \in {r \in SpecMinimalRecords : r.last_signed_attestation_target_epoch
                                                 # Some(2)},
            r2 \in SpecMinimalRecords}
    \cup {CompleteDoc(<<r>>) : r \in SpecCompleteRecords}
    \cup {CompleteDoc(<<CompleteRecord(pk1, <<[slot |-> 0, signing_root |-> None]>>, <<>>),
                        CompleteRecord(pk2, <<>>, <<AttestationItem(1, 1, None)>>)>>) :
            pk1 \in Keys, pk2 \in Keys}
    \cup BadDocs

KeyBatches == {<<a>> : a \in Keys} \cup {<<a, b>> : a \in Keys, b \in Keys}

(***************************************************************************)
(* Specification Spec: the operations of one store, each transaction one   *)
(* step.  A Complete import is a sequence of register_validator and        *)
(* check_and_insert_* transactions; ImportInterchange runs them back to    *)
(* back, and every interleaving of them with other calls is a sequence of  *)
(* the steps below.                                                        *)
(***************************************************************************)
RegisterValidators(public_keys) ==
    /\ db' = register_validators(db, public_keys).db
    /\ TotalRows(db') <= MaxRows
    /\ UNCHANGED <<threadVars, fileVars>>

CheckAndInsertBlock(pk, slot, root) ==
    /\ db' = check_and_insert_block_signing_root(db, pk, slot, root).db
    /\ TotalRows(db') <= MaxRows
    /\ UNCHANGED <<threadVars, fileVars>>

CheckAndInsertAttestation(pk, source, target, root) ==
    /\ db' = check_and_insert_attestation_signing_root(db, pk, source, target, root).db
    /\ TotalRows(db') <= MaxRows
    /\ UNCHANGED <<threadVars, fileVars>>

ImportInterchange(interchange) ==
    /\ db' = import_interchange_info(db, interchange, ClientRoot).db
    /\ TotalRows(db') <= MaxRows
    /\ UNCHANGED <<threadVars, fileVars>>

ImportAny == \E interchange \in SpecDocs : ImportInterchange(interchange)

Next ==
    \/ \E public_keys \in KeyBatches : RegisterValidators(public_keys)
    \/ \E pk \in Keys, slot \in Slots, root \in Roots : CheckAndInsertBlock(pk, slot, root)
    \/ \E pk \in Keys, source \in Epochs, target \in Epochs, root \in Roots :
          CheckAndInsertAttestation(pk, source, target, root)
    \/ ImportAny

Spec == Init /\ [][Next]_vars

(***************************************************************************)
(* SpecBlock: the operations that read or write signed_blocks, and the     *)
(* Minimal imports, on a store without attestations.                       *)
(***************************************************************************)
ImportBlocks ==
    \E interchange \in MinimalDocs \cup BlockDocs \cup BadDocs :
        ImportInterchange(interchange)

NextBlock ==
    \/ \E public_keys \in KeyBatches : RegisterValidators(public_keys)
    \/ \E pk \in Keys, slot \in Slots, root \in Roots : CheckAndInsertBlock(pk, slot, root)
    \/ ImportBlocks

SpecBlock == Init /\ [][NextBlock]_vars

(***************************************************************************)
(* SpecAtt: the operations that read or write signed_attestations, and the *)
(* Minimal imports of attestation epochs, on a store without blocks.       *)
(***************************************************************************)
ImportAttestations ==
    \E interchange \in MinimalAttestationDocs \cup AttestationDocs \cup BadDocs :
        ImportInterchange(interchange)

NextAtt ==
    \/ \E public_keys \in KeyBatches : RegisterValidators(public_keys)
    \/ \E pk \in Keys, source \in Epochs, target \in Epochs, root \in Roots :
          CheckAndInsertAttestation(pk, source, target, root)
    \/ ImportAttestations

SpecAtt == Init /\ [][NextAtt]_vars

(***************************************************************************)
(* Properties of signed_blocks (SpecBlock).                                *)
(***************************************************************************)
\* C1: after any sequence of register, check_and_insert_block, Complete import and
\* Minimal import transactions the committed signed_blocks table holds at most one row
\* per (validator, slot): no row is stored twice and no two rows share the pair.
C1_OneBlockPerValidatorSlot ==
    \A r \in BagToSet(db.signed_blocks) :
        /\ CopiesIn(r, db.signed_blocks) = 1
        /\ \A o \in BagToSet(db.signed_blocks) :
              (o.validator_id = r.validator_id /\ o.slot = r.slot) => o = r

\* A validator with blocks at two slots, one of which is proposed again with another
\* signing root and refused.
C1_Witness ==
    \E r \in BagToSet(db.signed_blocks), o \in BagToSet(db.signed_blocks) :
        /\ o.validator_id = r.validator_id
        /\ o.slot # r.slot
        /\ \E root \in Roots \ {r.signing_root} :
              LET res == check_and_insert_block_signing_root(
                            db, pubkey_from_str(db.validators[r.validator_id]), r.slot, root)
              IN  res.res.tag = "DoubleBlockProposal" /\ res.db = db

\* C10: for a registered validator and a slot above the block lower bound (if any),
\* check_and_insert_block returns Valid and appends exactly one row when signed_blocks
\* has no row at the slot, returns SameData when the row at the slot has the same
\* signing root, and returns DoubleBlockProposal with the stored record when it has a
\* different one; the last two leave the database as it was.
C10_BlockDecision ==
    \A pk \in Keys, slot \in Slots, root \in Roots :
        LET ids == {i \in 1..Len(db.validators) : db.validators[i] = to_hex_string(pk)}
            id == CHOOSE i \in ids : TRUE
            bounds == {b \in db.lower_bounds : b.validator_id = id}
            rows == {x \in BagToSet(db.signed_blocks) : x.validator_id = id /\ x.slot = slot}
            row == CHOOSE x \in rows : TRUE
            r == check_and_insert_block_signing_root(db, pk, slot, root)
        IN  (/\ ids # {}
             /\ \A b \in bounds :
                   IsSome(b.block_proposal_slot) => slot > Unwrap(b.block_proposal_slot))
            => IF rows = {}
               THEN /\ r.res = Valid
                    /\ r.db.signed_blocks =
                          db.signed_blocks
                          (+) SetToBag({[validator_id |-> id, slot |-> slot,
                                         signing_root |-> root]})
                    /\ BagCardinality(r.db.signed_blocks)
                          = BagCardinality(db.signed_blocks) + 1
                    /\ r.db = [db EXCEPT !.signed_blocks = r.db.signed_blocks]
               ELSE IF row.signing_root = root
               THEN r.res = SameData /\ r.db = db
               ELSE /\ r.res = DoubleBlockProposal([slot |-> row.slot,
                                                    signing_root |-> row.signing_root])
                    /\ r.db = db

\* A validator with a block lower bound and a stored block above it: the slot of the
\* block answers SameData and DoubleBlockProposal, and no row can be added.
C10_Witness ==
    \E x \in BagToSet(db.signed_blocks), b \in db.lower_bounds :
        /\ b.validator_id = x.validator_id
        /\ IsSome(b.block_proposal_slot)
        /\ x.slot > Unwrap(b.block_proposal_slot)
        /\ LET pk == pubkey_from_str(db.validators[x.validator_id])
           IN  /\ check_and_insert_block_signing_root(db, pk, x.slot, x.signing_root).res
                    = SameData
               /\ \E root \in Roots :
                     check_and_insert_block_signing_root(db, pk, x.slot, root).res
                        = DoubleBlockProposal(SignedBlock_from_row(x))

\* C7: in every step, for every validator and each of the three fields of its lower
\* bound, a value that is present stays present and does not decrease.
C7_LowerBoundMonotonic ==
    [][\A old \in db.lower_bounds :
          \E new \in db'.lower_bounds :
              /\ new.validator_id = old.validator_id
              /\ \A f \in {"block_proposal_slot", "attestation_source_epoch",
                           "attestation_target_epoch"} :
                    IsSome(old[f]) => (IsSome(new[f]) /\ Unwrap(new[f]) >= Unwrap(old[f]))]_vars

\* A lower bound with a block slot and attestation epochs, and a Minimal document that
\* imports without error a lower slot and no epochs for the same validator: the stored
\* bound stays as it was.
C7_Witness ==
    \E old \in db.lower_bounds :
        /\ IsSome(old.block_proposal_slot) /\ Unwrap(old.block_proposal_slot) > 0
        /\ IsSome(old.attestation_target_epoch)
        /\ LET pk == pubkey_from_str(db.validators[old.validator_id])
               r == import_interchange_info(
                        db, MinimalDoc(<<MinimalRecord(pk, Some(0), None, None)>>), ClientRoot)
           IN  r.res = OkUnit /\ r.db = db

(***************************************************************************)
(* Properties of signed_attestations (SpecAtt).                            *)
(***************************************************************************)
\* C2: after any sequence of register, check_and_insert_attestation and import
\* transactions, the committed attestations of a validator hold at most one row per
\* target epoch (so no two votes for one target), and no two of them are such that one
\* surrounds the other (a.source < b.source and a.target > b.target).
C2_NoSlashableAttestations ==
    \A a \in BagToSet(db.signed_attestations) :
        /\ CopiesIn(a, db.signed_attestations) = 1
        /\ \A b \in BagToSet(db.signed_attestations) :
              b.validator_id = a.validator_id
              => /\ (b.target_epoch = a.target_epoch => b = a)
                 /\ ~(a.source_epoch < b.source_epoch /\ a.target_epoch > b.target_epoch)

\* A validator with two attestations, for which a second vote for a stored target and
\* an attestation that surrounds a stored one are both refused.
C2_Witness ==
    \E a \in BagToSet(db.signed_attestations), b \in BagToSet(db.signed_attestations) :
        /\ a # b
        /\ a.validator_id = b.validator_id
        /\ LET pk == pubkey_from_str(db.validators[a.validator_id])
               tags == {check_and_insert_attestation_signing_root(
                            db, pk, source, target, root).res.tag :
                                source \in Epochs, target \in Epochs, root \in Roots}
           IN  {"DoubleVote", "NewSurroundsPrev"} \subseteq tags

(***************************************************************************)
(* Properties of the whole store (Spec).  A row of signed_blocks or        *)
(* signed_attestations is a message that was accepted: INSERT runs only in *)
(* check_and_insert_* after the check returned Valid, and no operation     *)
(* deletes or changes a row.                                               *)
(***************************************************************************)
\* C5 as stated: replaying any accepted block or attestation with the same arguments
\* returns SameData and adds no row, whatever was imported since it was accepted.
C5_ReplayIsSameData ==
    /\ \A x \in BagToSet(db.signed_blocks) :
          check_and_insert_block_signing_root(
              db, pubkey_from_str(db.validators[x.validator_id]), x.slot, x.signing_root)
          = [db |-> db, res |-> SameData]
    /\ \A x \in BagToSet(db.signed_attestations) :
          check_and_insert_attestation_signing_root(
              db, pubkey_from_str(db.validators[x.validator_id]),
              x.source_epoch, x.target_epoch, x.signing_root)
          = [db |-> db, res |-> SameData]

\* C5, amended: replaying an accepted block or attestation adds no row; it returns
\* SameData unless the validator's lower bound has since been raised to the message
\* (slot <= bound slot; source < bound source; target <= bound target), and then it
\* returns the lower-bound error.
C5_ReplayAboveLowerBound ==
    /\ \A x \in BagToSet(db.signed_blocks) :
          LET r == check_and_insert_block_signing_root(
                      db, pubkey_from_str(db.validators[x.validator_id]),
                      x.slot, x.signing_root)
              below == {b \in db.lower_bounds :
                          /\ b.validator_id = x.validator_id
                          /\ IsSome(b.block_proposal_slot)
                          /\ x.slot <= Unwrap(b.block_proposal_slot)}
          IN  /\ r.db = db
              /\ IF below = {} THEN r.res = SameData
                 ELSE r.res.tag = "SlotViolatesLowerBound"
    /\ \A x \in BagToSet(db.signed_attestations) :
          LET r == check_and_insert_attestation_signing_root(
                      db, pubkey_from_str(db.validators[x.validator_id]),
                      x.source_epoch, x.target_epoch, x.signing_root)
              below_source == {b \in db.lower_bounds :
                                  /\ b.validator_id = x.validator_id
                                  /\ IsSome(b.attestation_source_epoch)
                                  /\ x.source_epoch < Unwrap(b.attestation_source_epoch)}
              below_target == {b \in db.lower_bounds :
                                  /\ b.validator_id = x.validator_id
                                  /\ IsSome(b.attestation_target_epoch)
                                  /\ x.target_epoch <= Unwrap(b.attestation_target_epoch)}
          IN  /\ r.db = db
              /\ IF below_source # {} THEN r.res.tag = "SourceLessThanLowerBound"
                 ELSE IF below_target # {} THEN r.res.tag = "TargetLessThanOrEqLowerBound"
                 ELSE r.res = SameData

\* An accepted block whose validator has since got a lower bound at or above its slot:
\* the replay is refused.
C5_Witness ==
    \E x \in BagToSet(db.signed_blocks), b \in db.lower_bounds :
        /\ b.validator_id = x.validator_id
        /\ IsSome(b.block_proposal_slot)
        /\ x.slot <= Unwrap(b.block_proposal_slot)
        /\ check_and_insert_block_signing_root(
              db, pubkey_from_str(db.validators[x.validator_id]), x.slot, x.signing_root)
           = [db |-> db, res |-> SlotViolatesLowerBound(x.slot, Unwrap(b.block_proposal_slot))]

\* C6: whenever check_and_insert_block returns an InvalidBlock error or
\* check_and_insert_attestation an InvalidAttestation error, the committed database
\* (all four tables) is the one from before the call.
C6_InvalidLeavesStore ==
    /\ \A pk \in Keys, slot \in Slots, root \in Roots :
          LET r == check_and_insert_block_signing_root(db, pk, slot, root)
          IN  r.res.tag \in InvalidBlockTags => r.db = db
    /\ \A pk \in Keys, source \in Epochs, target \in Epochs, root \in Roots :
          LET r == check_and_insert_attestation_signing_root(db, pk, source, target, root)
          IN  r.res.tag \in InvalidAttestationTags => r.db = db

\* A store in which a block is refused for its lower bound, another as a double
\* proposal, and an attestation for its lower bound.
C6_Witness ==
    /\ {"SlotViolatesLowerBound", "DoubleBlockProposal"}
          \subseteq {check_and_insert_block_signing_root(db, pk, slot, root).res.tag :
                        pk \in Keys, slot \in Slots, root \in Roots}
    /\ \E pk \in Keys, source \in Epochs, target \in Epochs, root \in Roots :
          check_and_insert_attestation_signing_root(db, pk, source, target, root).res.tag
             \in {"SourceLessThanLowerBound", "TargetLessThanOrEqLowerBound"}

C9_ImportTwice ==
    \A doc \in SpecDocs :
        LET once == import_interchange_info(db, doc, ClientRoot)
            twice == import_interchange_info(once.db, doc, ClientRoot)
        IN  twice.db = once.db

\* A store on which a Complete document imports some of its records before it fails,
\* and a Minimal document raises a lower bound.
C9_Witness ==
    /\ \E doc \in SpecDocs :
          LET once == import_interchange_info(db, doc, ClientRoot)
          IN  /\ doc.format = "Complete"
              /\ once.res # OkUnit
              /\ BagCardinality(once.db.signed_attestations)
                    > BagCardinality(db.signed_attestations)
              /\ import_interchange_info(once.db, doc, ClientRoot) = once
    /\ \E doc \in SpecDocs :
          LET once == import_interchange_info(db, doc, ClientRoot)
          IN  /\ doc.format = "Minimal"
              /\ once.res = OkUnit
              /\ db.lower_bounds # {}
              /\ once.db.lower_bounds # db.lower_bounds
              /\ import_interchange_info(once.db, doc, ClientRoot) = once

(***************************************************************************)
(* SpecConc: threads that call register_validator and check_and_insert_*   *)
(* on one SlashingDatabase.  A call takes the connection of the pool       *)
(* (conn_pool.get()), or gives up after CONNECTION_TIMEOUT while another   *)
(* call holds it; with the connection it opens a transaction, checks,      *)
(* inserts, and commits, or drops the transaction at the first error.      *)
(* With a pool of one connection SQLite's own lock is never contended from *)
(* inside the process.                                                     *)
(***************************************************************************)
RegisterCall(pk) == [op |-> "register", validator_pubkey |-> pk]

BlockCall(pk, slot, root) ==
    [op |-> "block", validator_pubkey |-> pk, slot |-> slot, signing_root |-> root]

AttestationCall(pk, source, target, root) ==
    [op |-> "attestation", validator_pubkey |-> pk, att_source_epoch |-> source,
     att_target_epoch |-> target, att_signing_root |-> root]

\* One validator; two blocks for one slot; an attestation and one that surrounds it.
ConcCalls ==
    {RegisterCall(1)}
    \cup {BlockCall(1, 0, root) : root \in Roots}
    \cup {AttestationCall(1, 1, 1, 1), AttestationCall(1, 0, MaxEpoch, 1)}

\* r2d2's error when no connection becomes free within CONNECTION_TIMEOUT.
SQLPoolError == [tag |-> "SQLPoolError"]

\* The call run alone, as one step.
Sequential(d, c) ==
    IF c.op = "register" THEN register_validator(d, c.validator_pubkey)
    ELSE IF c.op = "import" THEN import_interchange_info(d, c.interchange, ClientRoot)
    ELSE IF c.op = "block"
    THEN check_and_insert_block_signing_root(d, c.validator_pubkey, c.slot, c.signing_root)
    ELSE check_and_insert_attestation_signing_root(
            d, c.validator_pubkey, c.att_source_epoch, c.att_target_epoch,
            c.att_signing_root)

InFlight == {t \in Threads : pc[t] \notin {"idle", "done"}}

Call(t, c) ==
    /\ pc[t] \in {"idle", "done"}
    /\ TotalRows(db) + Cardinality(InFlight) < MaxRows
    /\ pc' = [pc EXCEPT ![t] = "waiting"]
    /\ call' = [call EXCEPT ![t] = c]
    /\ ret' = [ret EXCEPT ![t] = NotRun]
    /\ lin' = [lin EXCEPT !.start[t] = db, !.ret[t] = NotRun, !.undone[t] = EmptyDb]
    /\ UNCHANGED <<db, conn, txn, fileVars>>

\* conn_pool.get() returns the connection; the transaction begins.
Acquire(t) ==
    /\ pc[t] = "waiting"
    /\ Cardinality(conn) < POOL_SIZE
    /\ conn' = conn \cup {t}
    /\ txn' = [txn EXCEPT ![t] = [db |-> db, safe |-> None]]
    /\ pc' = [pc EXCEPT ![t] = IF call[t].op = "register" THEN "insert"
                               ELSE IF call[t].op = "import" THEN "register"
                               ELSE "check"]
    /\ LET r == Sequential(lin.db, call[t])
       IN  lin' = [lin EXCEPT !.db = r.db, !.ret[t] = r.res]
    /\ UNCHANGED <<db, call, ret, fileVars>>

\* A variant of the step below in which the call, instead of giving up, runs on a
\* connection of its own.
Timeout_own_connection(t) ==
    /\ pc[t] = "waiting"
    /\ Cardinality(conn) >= POOL_SIZE
    /\ pc' = [pc EXCEPT ![t] = "done"]
    /\ LET r == Sequential(db, call[t])
       IN  db' = r.db /\ ret' = [ret EXCEPT ![t] = r.res]
    /\ UNCHANGED <<conn, call, txn, lin, fileVars>>

\* conn_pool.get() fails: every connection stayed in use for CONNECTION_TIMEOUT.
Timeout(t) ==
    /\ pc[t] = "waiting"
    /\ Cardinality(conn) >= POOL_SIZE
    /\ pc' = [pc EXCEPT ![t] = "done"]
    /\ ret' = [ret EXCEPT ![t] = SQLPoolError]
    /\ UNCHANGED <<db, conn, call, txn, lin, fileVars>>

\* The transaction is dropped without commit: nothing of it reaches the database.
Rollback(t, error) ==
    /\ conn' = conn \ {t}
    /\ txn' = [txn EXCEPT ![t] = NoTxn]
    /\ pc' = [pc EXCEPT ![t] = "done"]
    /\ ret' = [ret EXCEPT ![t] = error]
    /\ UNCHANGED <<db, call, lin, fileVars>>

\* check_block_proposal or check_attestation inside the transaction.
Check(t) ==
    /\ pc[t] = "check"
    /\ LET c == call[t]
           safe == IF c.op = "block"
                   THEN check_block_proposal(txn[t].db, c.validator_pubkey, c.slot,
                                             c.signing_root)
                   ELSE check_attestation(txn[t].db, c.validator_pubkey,
                                          c.att_source_epoch, c.att_target_epoch,
                                          c.att_signing_root)
       IN  IF ~IsSafe(safe) THEN Rollback(t, safe)
           ELSE /\ txn' = [txn EXCEPT ![t].safe = Some(safe)]
                /\ pc' = [pc EXCEPT ![t] = IF safe = SameData THEN "commit" ELSE "insert"]
                /\ UNCHANGED <<db, conn, call, ret, lin, fileVars>>

\* The INSERT of the call inside the transaction.
Insert(t) ==
    /\ pc[t] = "insert"
    /\ LET c == call[t]
           ins == IF c.op = "register"
                  THEN register_validators_in_txn(txn[t].db, <<c.validator_pubkey>>)
                  ELSE IF c.op = "block"
                  THEN insert_block_proposal(txn[t].db, c.validator_pubkey, c.slot,
                                             c.signing_root)
                  ELSE insert_attestation(txn[t].db, c.validator_pubkey,
                                          c.att_source_epoch, c.att_target_epoch,
                                          c.att_signing_root)
       IN  IF ~ins.ok THEN Rollback(t, IF c.op = "register" THEN SQLError ELSE ins.err)
           ELSE /\ txn' = [txn EXCEPT ![t] =
                            [db |-> ins.db,
                             safe |-> IF c.op = "register" THEN Some(OkUnit) ELSE @.safe]]
                /\ pc' = [pc EXCEPT ![t] = "commit"]
                /\ UNCHANGED <<db, conn, call, ret, lin, fileVars>>

\* txn.commit(): the transaction's database becomes the committed one, and the
\* connection goes back to the pool.
Commit(t) ==
    /\ pc[t] = "commit"
    /\ db' = txn[t].db
    /\ conn' = conn \ {t}
    /\ ret' = [ret EXCEPT ![t] = Unwrap(txn[t].safe)]
    /\ txn' = [txn EXCEPT ![t] = NoTxn]
    /\ pc' = [pc EXCEPT ![t] = "done"]
    /\ UNCHANGED <<call, lin, fileVars>>

NextConc ==
    \/ \E t \in Threads, c \in ConcCalls : Call(t, c)
    \/ \E t \in Threads : Acquire(t)
    \/ \E t \in Threads : Timeout(t)
    \/ \E t \in Threads : Check(t)
    \/ \E t \in Threads : Insert(t)
    \/ \E t \in Threads : Commit(t)

SpecConc == Init /\ [][NextConc]_vars

(***************************************************************************)
(* Operations that stop before their commit.  Every `?` between            *)
(* transaction_with_behavior and txn.commit(), txn.commit()? itself, and   *)
(* the unwinding of a panicking thread drop the rusqlite Transaction,      *)
(* whose drop behaviour is a rollback.  The Minimal import is the          *)
(* operation that writes lower bounds, in two steps inside one             *)
(* transaction: the registration of the validators and the loop over the   *)
(* records.                                                                *)
(***************************************************************************)
ImportCall(interchange) == [op |-> "import", interchange |-> interchange]

\* Minimal documents for validator 1: a block bound, and a record that the import
\* refuses after it registered the validator.
AbortDocs ==
    {MinimalDoc(<<MinimalRecord(1, Some(MaxSlot), None, None)>>),
     MinimalDoc(<<MinimalRecord(1, None, Some(0), None)>>)}

\* The registration of validator 1 and two blocks for one slot under that bound.
AbortCalls == {RegisterCall(1)} \cup {BlockCall(1, 0, root) : root \in Roots}

\* import_interchange_info with a Minimal document, up to conn_pool.get().
CallImport(t, interchange) ==
    /\ pc[t] \in {"idle", "done"}
    /\ TotalRows(import_interchange_info(db, interchange, ClientRoot).db)
          + Cardinality(InFlight) <= MaxRows
    /\ pc' = [pc EXCEPT ![t] = "waiting"]
    /\ call' = [call EXCEPT ![t] = ImportCall(interchange)]
    /\ ret' = [ret EXCEPT ![t] = NotRun]
    /\ lin' = [lin EXCEPT !.start[t] = db, !.ret[t] = NotRun, !.undone[t] = EmptyDb]
    /\ UNCHANGED <<db, conn, txn, fileVars>>

\* register_validators_in_txn of the import, inside the transaction.
ImportRegister(t) ==
    /\ pc[t] = "register"
    /\ LET data == call[t].interchange.data
           reg == register_validators_in_txn(
                     txn[t].db, [i \in 1..Len(data) |-> data[i].pubkey])
       IN  IF ~reg.ok THEN Rollback(t, SQLError)
           ELSE /\ txn' = [txn EXCEPT ![t] = [db |-> reg.db, safe |-> Some(OkUnit)]]
                /\ pc' = [pc EXCEPT ![t] = "records"]
                /\ UNCHANGED <<db, conn, call, ret, lin, fileVars>>

\* The loop of the import that updates the lower bounds, inside the transaction.
ImportRecords(t) ==
    /\ pc[t] = "records"
    /\ LET r == import_minimal_records(txn[t].db, call[t].interchange.data)
       IN  IF ~r.ok THEN Rollback(t, r.err)
           ELSE /\ txn' = [txn EXCEPT ![t].db = r.db]
                /\ pc' = [pc EXCEPT ![t] = "commit"]
                /\ UNCHANGED <<db, conn, call, ret, lin, fileVars>>

\* A variant of the step below in which what the transaction wrote stays in the
\* database (statements run in autocommit mode).
Abort_keeps_writes(t) ==
    /\ t \in conn
    /\ db' = txn[t].db
    /\ conn' = conn \ {t}
    /\ txn' = [txn EXCEPT ![t] = NoTxn]
    /\ pc' = [pc EXCEPT ![t] = "done"]
    /\ ret' = [ret EXCEPT ![t] = SQLError]
    /\ lin' = [lin EXCEPT !.db = db, !.ret[t] = NotRun, !.undone[t] = txn[t].db]
    /\ UNCHANGED <<call, fileVars>>

\* The operation stops between conn_pool.get() and the end of txn.commit(): a
\* statement or the commit fails, or the thread unwinds.  The Transaction is dropped
\* and rolls back.  The sequential execution goes on without the call: the pool has
\* one connection, so the database the call started from is the committed one.
Abort(t) ==
    /\ t \in conn
    /\ conn' = conn \ {t}
    /\ txn' = [txn EXCEPT ![t] = NoTxn]
    /\ pc' = [pc EXCEPT ![t] = "done"]
    /\ ret' = [ret EXCEPT ![t] = SQLError]
    /\ lin' = [lin EXCEPT !.db = db, !.ret[t] = NotRun, !.undone[t] = txn[t].db]
    /\ UNCHANGED <<db, call, fileVars>>

NextAbort ==
    \/ \E t \in Threads, c \in AbortCalls : Call(t, c)
    \/ \E t \in Threads, interchange \in AbortDocs : CallImport(t, interchange)
    \/ \E t \in Threads : Acquire(t)
    \/ \E t \in Threads : Timeout(t)
    \/ \E t \in Threads : Check(t)
    \/ \E t \in Threads : Insert(t)
    \/ \E t \in Threads : ImportRegister(t)
    \/ \E t \in Threads : ImportRecords(t)
    \/ \E t \in Threads : Commit(t)
    \/ \E t \in Threads : Abort(t)

SpecAbort == Init /\ [][NextAbort]_vars

(***************************************************************************)
(* The database file.  At the path there is nothing ("absent"), a file     *)
(* that SQLite does not read as a database ("not_a_database"), a database  *)
(* without the table lower_bounds, as earlier versions wrote it and as    *)
(* SQLite reads an empty file ("no_lower_bounds"), or a database with all  *)
(* tables ("database").                                                    *)
(*                                                                         *)
(* A session is a SlashingDatabase value: a pool of max_size connections,  *)
(* each set up by apply_pragmas.  With locking_mode EXCLUSIVE a connection *)
(* keeps the file locks it takes: the first read takes and keeps a SHARED  *)
(* lock, the first write an EXCLUSIVE lock.  SQLite grants a SHARED lock   *)
(* unless another connection holds an EXCLUSIVE one, and an EXCLUSIVE lock *)
(* only when no other connection holds any lock; a statement that does not *)
(* get its lock fails with SQLITE_BUSY.                                    *)
(***************************************************************************)
IOError == [tag |-> "IOError"]

OkSession(id) == [tag |-> "Ok", session |-> id]

Live(ss) == {i \in SessionIds : ss[i].via # "none"}

\* The lowest unused session, for the value that create or open returns.
FreeId(ss) == CHOOSE i \in SessionIds \ Live(ss) : \A j \in SessionIds \ Live(ss) : i <= j

CanRead(ss, id) == \A i \in Live(ss) \ {id} : ss[i].lock # "EXCLUSIVE"

CanWrite(ss, id) == \A i \in Live(ss) \ {id} : ss[i].lock = "NONE"

apply_pragmas(connection) ==
    [connection EXCEPT !.foreign_keys = TRUE, !.locking_mode = "EXCLUSIVE"]

open_conn_pool(via, p) ==
    apply_pragmas([NoSession EXCEPT !.via = via, !.proc = p, !.max_size = POOL_SIZE])

\* create: create_new fails on any existing file; the CREATE TABLE statements write,
\* so the connection keeps an EXCLUSIVE lock.
create(f, ss, p, id) ==
    IF f # "absent" THEN [file |-> f, sessions |-> ss, res |-> IOError]
    ELSE [file |-> "database",
          sessions |-> [ss EXCEPT ![id] = [open_conn_pool("create", p) EXCEPT
                                            !.lock = "EXCLUSIVE"]],
          res |-> OkSession(id)]

\* A variant of open below whose connection flags include SQLITE_OPEN_CREATE: SQLite
\* creates the missing file, and open adds the table to it.
open_create_if_absent(f, ss, p, id) ==
    IF ~CanRead(ss, id) \/ f = "not_a_database"
    THEN [file |-> f, sessions |-> ss, res |-> SQLError]
    ELSE IF f \in {"absent", "no_lower_bounds"}
    THEN IF ~CanWrite(ss, id) THEN [file |-> f, sessions |-> ss, res |-> SQLError]
         ELSE [file |-> "database",
               sessions |-> [ss EXCEPT ![id] = [open_conn_pool("open", p) EXCEPT
                                                 !.lock = "EXCLUSIVE"]],
               res |-> OkSession(id)]
    ELSE [file |-> f,
          sessions |-> [ss EXCEPT ![id] = [open_conn_pool("open", p) EXCEPT
                                            !.lock = "SHARED"]],
          res |-> OkSession(id)]

\* open: SQLITE_OPEN_READ_WRITE does not create the file.  lower_bounds_table_exists
\* reads, so the connection takes a SHARED lock; create_lower_bounds_table, run only
\* when the table is missing, writes.  An error drops the pool and its locks.
open(f, ss, p, id) ==
    IF f = "absent" \/ ~CanRead(ss, id) \/ f = "not_a_database"
    THEN [file |-> f, sessions |-> ss, res |-> SQLError]
    ELSE IF f = "no_lower_bounds"
    THEN IF ~CanWrite(ss, id) THEN [file |-> f, sessions |-> ss, res |-> SQLError]
         ELSE [file |-> "database",
               sessions |-> [ss EXCEPT ![id] = [open_conn_pool("open", p) EXCEPT
                                                 !.lock = "EXCLUSIVE"]],
               res |-> OkSession(id)]
    ELSE [file |-> f,
          sessions |-> [ss EXCEPT ![id] = [open_conn_pool("open", p) EXCEPT
                                            !.lock = "SHARED"]],
          res |-> OkSession(id)]

\* open_or_create after path.exists() returned `exists`.
open_or_create(exists, f, ss, p, id) ==
    IF exists THEN open(f, ss, p, id) ELSE create(f, ss, p, id)

Operation(op, p, id, r) ==
    [op |-> op, proc |-> p, id |-> id, res |-> r.res, file |-> file,
     sessions |-> sessions]

\* Another program leaves a file at the path.
Place(f) ==
    /\ file = "absent"
    /\ file' = f
    /\ last' = [op |-> "place"]
    /\ UNCHANGED <<sessions, pending, db, threadVars>>

Create(p) ==
    /\ Live(sessions) # SessionIds
    /\ LET id == FreeId(sessions)
           r == create(file, sessions, p, id)
       IN  /\ file' = r.file
           /\ sessions' = r.sessions
           /\ last' = Operation("create", p, id, r)
    /\ UNCHANGED <<pending, db, threadVars>>

Open(p) ==
    /\ Live(sessions) # SessionIds
    /\ LET id == FreeId(sessions)
           r == open(file, sessions, p, id)
       IN  /\ file' = r.file
           /\ sessions' = r.sessions
           /\ last' = Operation("open", p, id, r)
    /\ UNCHANGED <<pending, db, threadVars>>

\* path.exists() of open_or_create.
PathExists(p) ==
    /\ pending[p] = "none"
    /\ pending' = [pending EXCEPT ![p] = IF file # "absent" THEN "exists" ELSE "missing"]
    /\ last' = [op |-> "exists"]
    /\ UNCHANGED <<file, sessions, db, threadVars>>

\* The open or the create of open_or_create.
OpenOrCreate(p) ==
    /\ pending[p] # "none"
    /\ Live(sessions) # SessionIds
    /\ LET id == FreeId(sessions)
           r == open_or_create(pending[p] = "exists", file, sessions, p, id)
       IN  /\ file' = r.file
           /\ sessions' = r.sessions
           /\ last' = [Operation("open_or_create", p, id, r) EXCEPT
                          !.op = IF pending[p] = "exists" THEN "open_or_create: exists"
                                 ELSE "open_or_create: missing"]
    /\ pending' = [pending EXCEPT ![p] = "none"]
    /\ UNCHANGED <<db, threadVars>>

\* conn_pool.get() in a thread of the session's process.
Get(id, t) ==
    /\ id \in Live(sessions)
    /\ \A i \in SessionIds : t \notin sessions[i].holders
    /\ Cardinality(sessions[id].holders) < sessions[id].max_size
    /\ sessions' = [sessions EXCEPT ![id].holders = @ \cup {t}]
    /\ last' = [op |-> "get"]
    /\ UNCHANGED <<file, pending, db, threadVars>>

\* A transaction that writes, on the connection the thread holds; the connection
\* goes back to the pool.
Write(id, t) ==
    /\ id \in Live(sessions)
    /\ t \in sessions[id].holders
    /\ sessions' = [sessions EXCEPT
                      ![id].holders = @ \ {t},
                      ![id].lock = IF CanWrite(sessions, id) THEN "EXCLUSIVE" ELSE @]
    /\ last' = [op |-> "write", proc |-> sessions[id].proc, id |-> id,
                res |-> IF CanWrite(sessions, id) THEN OkUnit ELSE SQLError,
                file |-> file, sessions |-> sessions]
    /\ UNCHANGED <<file, pending, db, threadVars>>

\* The SlashingDatabase is dropped: its connection closes and its locks go.
Drop(id) ==
    /\ id \in Live(sessions)
    /\ sessions[id].holders = {}
    /\ sessions' = [sessions EXCEPT ![id] = NoSession]
    /\ last' = [op |-> "drop"]
    /\ UNCHANGED <<file, pending, db, threadVars>>

NextFile ==
    \/ \E f \in {"not_a_database", "no_lower_bounds"} : Place(f)
    \/ \E p \in Procs : Create(p)
    \/ \E p \in Procs : Open(p)
    \/ \E p \in Procs : PathExists(p)
    \/ \E p \in Procs : OpenOrCreate(p)
    \/ \E id \in SessionIds, t \in Threads : Get(id, t)
    \/ \E id \in SessionIds, t \in Threads : Write(id, t)
    \/ \E id \in SessionIds : Drop(id)

SpecFile == Init /\ [][NextFile]_vars

(***************************************************************************)
(* Properties of concurrent calls (SpecConc).                              *)
(***************************************************************************)
\* Two threads have completed check_and_insert_block calls for one validator and one
\* slot with different signing roots, and each call was issued on a database in which
\* the validator was registered and had no block at the slot: the second call was
\* issued before the first had committed.
ConcurrentProposals(t, u) ==
    /\ t # u
    /\ pc[t] = "done" /\ pc[u] = "done"
    /\ call[t].op = "block" /\ call[u].op = "block"
    /\ call[t].validator_pubkey = call[u].validator_pubkey
    /\ call[t].slot = call[u].slot
    /\ call[t].signing_root # call[u].signing_root
    /\ \A x \in {t, u} :
          check_block_proposal(lin.start[x], call[x].validator_pubkey, call[x].slot,
                               call[x].signing_root) = Valid

\* C3 as stated: of two such calls exactly one returns Valid, and the other returns
\* DoubleBlockProposal with the record of the first.
C3_OneValidOtherDouble ==
    \A t \in Threads, u \in Threads :
        ConcurrentProposals(t, u)
        => \E w \in {t, u} :
              /\ ret[w] = Valid
              /\ \A l \in {t, u} \ {w} :
                    ret[l] = DoubleBlockProposal([slot |-> call[w].slot,
                                                  signing_root |-> call[w].signing_root])

\* C3, amended: the two calls never both return Valid; when both got the connection,
\* one returns Valid and the other DoubleBlockProposal with the record of the first; a
\* call that did not get the connection returns the pool's error; and the only block
\* stored at the slot is that of the call that returned Valid.
C3_NeverInterleaved ==
    \A t \in Threads, u \in Threads :
        ConcurrentProposals(t, u)
        => /\ ~(ret[t] = Valid /\ ret[u] = Valid)
           /\ \A x \in {t, u} :
                 \/ ret[x] = Valid
                 \/ ret[x] = SQLPoolError
                 \/ \E w \in {t, u} \ {x} :
                       /\ ret[w] = Valid
                       /\ ret[x] = DoubleBlockProposal(
                                      [slot |-> call[w].slot,
                                       signing_root |-> call[w].signing_root])
           /\ (ret[t] # SQLPoolError /\ ret[u] # SQLPoolError)
                 => (ret[t] = Valid \/ ret[u] = Valid)
           /\ \A r \in BagToSet(db.signed_blocks) :
                 /\ CopiesIn(r, db.signed_blocks) = 1
                 /\ r.slot = call[t].slot
                       => \E w \in {t, u} : ret[w] = Valid
                                            /\ r.signing_root = call[w].signing_root

\* Two such calls, both served: one Valid, one DoubleBlockProposal.
C3_Witness ==
    \E t \in Threads, u \in Threads :
        /\ ConcurrentProposals(t, u)
        /\ ret[t] = Valid
        /\ ret[u].tag = "DoubleBlockProposal"
        /\ BagCardinality(db.signed_blocks) = 1

\* C4 as stated: the results of the completed calls and, when no call holds the
\* connection, the committed database are those of a sequential execution of the same
\* calls (lin: the calls one at a time, in the order in which they took the
\* connection); two attestations of which one surrounds the other are never both
\* Valid.  No sequential execution contains a call that gave up waiting for the
\* connection: run alone, a call finds the connection free.
C4_Linearizable ==
    /\ \A t \in Threads :
          (pc[t] = "done" /\ call[t].op # "register") => ret[t] = lin.ret[t]
    /\ conn = {} => db = lin.db
    /\ \A t \in Threads, u \in Threads :
          (/\ pc[t] = "done" /\ pc[u] = "done"
           /\ call[t].op = "attestation" /\ call[u].op = "attestation"
           /\ call[t].validator_pubkey = call[u].validator_pubkey
           /\ call[t].att_source_epoch < call[u].att_source_epoch
           /\ call[t].att_target_epoch > call[u].att_target_epoch)
          => ~(ret[t] = Valid /\ ret[u] = Valid)

\* C4, amended: a completed call either gave up waiting for the connection, returned the
\* pool's error and is no part of the sequential execution, or returned what it returns
\* in the sequential execution; the committed database is that of the sequential
\* execution; two attestations of which one surrounds the other are never both Valid.
C4_LinearizableButTimeouts ==
    /\ \A t \in Threads :
          (pc[t] = "done" /\ call[t].op # "register")
          => IF ret[t] = SQLPoolError THEN lin.ret[t] = NotRun ELSE ret[t] = lin.ret[t]
    /\ conn = {} => db = lin.db
    /\ \A t \in Threads, u \in Threads :
          (/\ pc[t] = "done" /\ pc[u] = "done"
           /\ call[t].op = "attestation" /\ call[u].op = "attestation"
           /\ call[t].validator_pubkey = call[u].validator_pubkey
           /\ call[t].att_source_epoch < call[u].att_source_epoch
           /\ call[t].att_target_epoch > call[u].att_target_epoch)
          => ~(ret[t] = Valid /\ ret[u] = Valid)

\* Two attestations, one surrounding the other, both issued on a database without
\* attestations: the one served first is Valid, the other is refused.
C4_Witness ==
    \E t \in Threads, u \in Threads :
        /\ pc[t] = "done" /\ pc[u] = "done"
        /\ call[t].op = "attestation" /\ call[u].op = "attestation"
        /\ call[t].att_source_epoch < call[u].att_source_epoch
        /\ call[t].att_target_epoch > call[u].att_target_epoch
        /\ lin.start[t].signed_attestations = EmptyBag
        /\ lin.start[u].signed_attestations = EmptyBag
        /\ ret[t] = Valid
        /\ ret[u].tag = "PrevSurroundsNew"

(***************************************************************************)
(* Lower bounds and the checks (SpecBlock, SpecAtt).                       *)
(***************************************************************************)
\* The validators that have a block lower bound, with the bound.
BlockBounds(d) ==
    {[pk |-> pubkey_from_str(d.validators[b.validator_id]),
      id |-> b.validator_id,
      bound |-> Unwrap(b.block_proposal_slot)] :
        b \in {x \in d.lower_bounds : IsSome(x.block_proposal_slot)}}

\* C11: while the block lower bound of a validator is b, check_and_insert_block for the
\* validator at any slot <= b, with any signing root, returns
\* SlotViolatesLowerBound{slot, b} and stores nothing, and at slot b + 1, when the
\* validator has no block there, it returns Valid; and no step removes or lowers the
\* bound, so that the slots <= b are refused in every later state.
C11_BlockLowerBoundInclusive ==
    /\ [](\A v \in BlockBounds(db), root \in Roots :
            /\ \A slot \in 0..v.bound :
                  LET r == check_and_insert_block_signing_root(db, v.pk, slot, root)
                  IN  r.res = SlotViolatesLowerBound(slot, v.bound) /\ r.db = db
            /\ signed_blocks_by_key(db, v.id, v.bound + 1) = {}
               => check_and_insert_block_signing_root(db, v.pk, v.bound + 1, root).res
                     = Valid)
    /\ [][\A v \in BlockBounds(db) :
            \E w \in BlockBounds(db') : w.id = v.id /\ w.bound >= v.bound]_vars

\* A validator whose block lower bound is above slot 0 and who signed a block below the
\* bound before the bound was raised: the slot of that block, the slots up to the bound
\* and the slot after the bound are the three cases.
C11_Witness ==
    \E v \in BlockBounds(db) :
        /\ v.bound > 0
        /\ \E x \in BagToSet(db.signed_blocks) : x.validator_id = v.id /\ x.slot < v.bound
        /\ signed_blocks_by_key(db, v.id, v.bound + 1) = {}
        /\ check_and_insert_block_signing_root(db, v.pk, v.bound, ZeroHash).res
              = SlotViolatesLowerBound(v.bound, v.bound)
        /\ check_and_insert_block_signing_root(db, v.pk, v.bound + 1, ZeroHash).res = Valid

\* The validators that have attestation lower bounds, with the bounds.
AttestationBounds(d) ==
    {[pk |-> pubkey_from_str(d.validators[b.validator_id]),
      id |-> b.validator_id,
      source |-> Unwrap(b.attestation_source_epoch),
      target |-> Unwrap(b.attestation_target_epoch)] :
        b \in {x \in d.lower_bounds : /\ IsSome(x.attestation_source_epoch)
                                      /\ IsSome(x.attestation_target_epoch)}}

\* The epochs of the attestations tried against the lower bounds: one more than the
\* epochs of the store, for the target just above the highest bound.
BoundEpochs == 0..(MaxEpoch + 1)

\* C12 as stated: while the attestation lower bounds of a validator are (s, t), every
\* check_and_insert_attestation with source < s returns SourceLessThanLowerBound, every
\* one with target <= t returns TargetLessThanOrEqLowerBound, and the attestation
\* (s, t + 1) is not refused with a lower-bound error.
C12_EveryBoundReported ==
    \A v \in AttestationBounds(db), root \in Roots :
        /\ \A source \in BoundEpochs, target \in BoundEpochs :
              LET r == check_and_insert_attestation_signing_root(
                          db, v.pk, source, target, root)
              IN  /\ source < v.source => r.res.tag = "SourceLessThanLowerBound"
                  /\ target <= v.target => r.res.tag = "TargetLessThanOrEqLowerBound"
        /\ check_and_insert_attestation_signing_root(
              db, v.pk, v.source, v.target + 1, root).res.tag
                 \notin {"SourceLessThanLowerBound", "TargetLessThanOrEqLowerBound"}

\* C12: while the attestation lower bounds of a validator are (s, t), a
\* check_and_insert_attestation with source <= target returns
\* SourceLessThanLowerBound{source, s} when source < s, and
\* TargetLessThanOrEqLowerBound{target, t} when source >= s and target <= t, and stores
\* nothing; one with source > target returns SourceExceedsTarget; the attestation
\* (s, t + 1) is not refused with a lower-bound error; and no step removes or lowers
\* either bound, so that an attestation with source <= target and source < s or
\* target <= t is refused with one of the two lower-bound errors in every later state.
C12_AttestationLowerBounds ==
    /\ [](\A v \in AttestationBounds(db), root \in Roots :
            /\ \A source \in BoundEpochs, target \in BoundEpochs :
                  LET r == check_and_insert_attestation_signing_root(
                              db, v.pk, source, target, root)
                  IN  /\ (source <= target /\ source < v.source)
                         => r.res = SourceLessThanLowerBound(source, v.source) /\ r.db = db
                      /\ (source <= target /\ source >= v.source /\ target <= v.target)
                         => /\ r.res = TargetLessThanOrEqLowerBound(target, v.target)
                            /\ r.db = db
                      /\ source > target => r.res = SourceExceedsTarget /\ r.db = db
            /\ check_and_insert_attestation_signing_root(
                  db, v.pk, v.source, v.target + 1, root).res.tag
                     \notin {"SourceLessThanLowerBound", "TargetLessThanOrEqLowerBound"})
    /\ [][\A v \in AttestationBounds(db) :
            \E w \in AttestationBounds(db') :
                w.id = v.id /\ w.source >= v.source /\ w.target >= v.target]_vars

\* A validator with lower bounds (s, t), 0 < s <= t: (s - 1, t) is below both bounds and
\* reports the source, (s, t) reports the target, (t + 1, s - 1) has its source above
\* its target although its target is below the bound, and (s, t + 1) is Valid.
C12_Witness ==
    \E v \in AttestationBounds(db) :
        /\ 0 < v.source /\ v.source <= v.target
        /\ check_and_insert_attestation_signing_root(
              db, v.pk, v.source - 1, v.target, ZeroHash).res
                 = SourceLessThanLowerBound(v.source - 1, v.source)
        /\ check_and_insert_attestation_signing_root(
              db, v.pk, v.source, v.target, ZeroHash).res
                 = TargetLessThanOrEqLowerBound(v.target, v.target)
        /\ check_and_insert_attestation_signing_root(
              db, v.pk, v.target + 1, v.source - 1, ZeroHash).res = SourceExceedsTarget
        /\ check_and_insert_attestation_signing_root(
              db, v.pk, v.source, v.target + 1, ZeroHash).res = Valid

(***************************************************************************)
(* The decisions of check_attestation (SpecAtt).                           *)
(***************************************************************************)
\* The stored attestations of the validator with public key pk.
AttestationsOf(d, pk) ==
    {x \in BagToSet(d.signed_attestations) :
        d.validators[x.validator_id] = to_hex_string(pk)}

\* The stored attestations that surround (source, target) and those it surrounds.
Surrounding(d, pk, source, target) ==
    {x \in AttestationsOf(d, pk) : x.source_epoch < source /\ x.target_epoch > target}

Surrounded(d, pk, source, target) ==
    {x \in AttestationsOf(d, pk) : x.source_epoch > source /\ x.target_epoch < target}

\* The attestation (source, target) of validator pk is not refused by the checks that
\* come before the lookup of the stored attestations: source <= target, the validator
\* is registered, and the lower bounds, if any, are respected.
PassesBounds(d, pk, source, target) ==
    /\ source <= target
    /\ \E i \in 1..Len(d.validators) : d.validators[i] = to_hex_string(pk)
    /\ \A v \in AttestationBounds(d) :
          v.pk = pk => source >= v.source /\ target > v.target

\* The stored attestations with the greatest target epoch.
GreatestTarget(rows) ==
    {SignedAttestation_from_row(x) :
        x \in {y \in rows : \A o \in rows : o.target_epoch <= y.target_epoch}}

\* C13 as stated: check_and_insert_attestation returns PrevSurroundsNew whenever a
\* stored attestation of the validator has source < new.source and target >
\* new.target, and NewSurroundsPrev whenever a stored attestation has source >
\* new.source and target < new.target.
C13_SurroundAlwaysReported ==
    \A pk \in Keys, source \in Epochs, target \in Epochs, root \in Roots :
        LET r == check_and_insert_attestation_signing_root(db, pk, source, target, root)
        IN  /\ Surrounding(db, pk, source, target) # {} => r.res.tag = "PrevSurroundsNew"
            /\ Surrounded(db, pk, source, target) # {} => r.res.tag = "NewSurroundsPrev"

\* The example of C13 on a fresh store: after (4, 8) is accepted, (3, 9) yields
\* NewSurroundsPrev{(4, 8)} and (5, 7) yields PrevSurroundsNew{(4, 8)}, and neither is
\* stored.
C13_Example ==
    LET d0 == register_validator(EmptyDb, 1).db
        first == check_and_insert_attestation_signing_root(d0, 1, 4, 8, ZeroHash)
        prev == [source_epoch |-> 4, target_epoch |-> 8, signing_root |-> ZeroHash]
        outer == check_and_insert_attestation_signing_root(first.db, 1, 3, 9, 1)
        inner == check_and_insert_attestation_signing_root(first.db, 1, 5, 7, 1)
    IN  /\ first.res = Valid /\ first.db # d0
        /\ outer.res = NewSurroundsPrev(prev) /\ outer.db = first.db
        /\ inner.res = PrevSurroundsNew(prev) /\ inner.db = first.db

\* C13: for an attestation with source <= target that respects the validator's lower
\* bounds and whose target epoch no stored attestation of the validator has,
\* check_and_insert_attestation returns PrevSurroundsNew when a stored attestation of
\* the validator has source < new.source and target > new.target, NewSurroundsPrev when
\* one has source > new.source and target < new.target, each with the stored
\* attestation of greatest target among them and without storing anything, and Valid
\* when neither is the case (an equal source epoch is no surround); and the example of
\* the claim holds.
C13_SurroundReported ==
    /\ \A pk \in Keys, source \in Epochs, target \in Epochs, root \in Roots :
          LET r == check_and_insert_attestation_signing_root(db, pk, source, target, root)
              surrounding == Surrounding(db, pk, source, target)
              surrounded == Surrounded(db, pk, source, target)
          IN  (/\ PassesBounds(db, pk, source, target)
               /\ \A x \in AttestationsOf(db, pk) : x.target_epoch # target)
              => IF surrounding # {}
                 THEN /\ r.res.tag = "PrevSurroundsNew"
                      /\ r.res.prev \in GreatestTarget(surrounding)
                      /\ r.db = db
                 ELSE IF surrounded # {}
                 THEN /\ r.res.tag = "NewSurroundsPrev"
                      /\ r.res.prev \in GreatestTarget(surrounded)
                      /\ r.db = db
                 ELSE r.res = Valid
    /\ C13_Example

\* A validator with a stored attestation that surrounds a new one, which is refused with
\* the stored attestation, while a new attestation with the source of the stored one
\* and a lower target is Valid.  (Within the bounds a store has no room for this and,
\* for a second validator, an attestation that a new one surrounds; that case is met in
\* other states.)
C13_Witness ==
    \E x \in BagToSet(db.signed_attestations), source \in Epochs, target \in Epochs :
        LET pk == pubkey_from_str(db.validators[x.validator_id])
        IN  /\ PassesBounds(db, pk, source, target)
            /\ x \in Surrounding(db, pk, source, target)
            /\ check_and_insert_attestation_signing_root(
                  db, pk, source, target, ZeroHash).res
                     = PrevSurroundsNew(SignedAttestation_from_row(x))
            /\ PassesBounds(db, pk, x.source_epoch, target)
            /\ check_and_insert_attestation_signing_root(
                  db, pk, x.source_epoch, target, ZeroHash).res = Valid

\* A validator with a stored attestation that a new one surrounds, which is refused
\* with the stored attestation.
C13_WitnessNewSurroundsPrev ==
    \E x \in BagToSet(db.signed_attestations), source \in Epochs, target \in Epochs :
        LET pk == pubkey_from_str(db.validators[x.validator_id])
        IN  /\ PassesBounds(db, pk, source, target)
            /\ x \in Surrounded(db, pk, source, target)
            /\ check_and_insert_attestation_signing_root(
                  db, pk, source, target, ZeroHash).res
                     = NewSurroundsPrev(SignedAttestation_from_row(x))

\* The stored attestations of validator pk with the target epoch.
SameTarget(d, pk, target) ==
    {x \in AttestationsOf(d, pk) : x.target_epoch = target}

\* C14 as stated: when a stored attestation of the validator has the target epoch of
\* the new one, check_and_insert_attestation returns SameData if the signing roots are
\* equal and DoubleVote with the stored attestation otherwise, whatever the source
\* epoch of the new one.
C14_SameTargetOnlyRoot ==
    \A pk \in Keys, source \in Epochs, target \in Epochs, root \in Roots :
        \A x \in SameTarget(db, pk, target) :
            check_and_insert_attestation_signing_root(db, pk, source, target, root).res
               = IF x.signing_root = root THEN SameData
                 ELSE DoubleVote(SignedAttestation_from_row(x))

\* C14: for a new attestation with source <= target that respects the validator's
\* lower bounds, when a stored attestation of the validator has the same target epoch,
\* check_and_insert_attestation returns SameData if the signing roots are equal, also
\* when the source epochs differ, and DoubleVote with the stored attestation otherwise,
\* also when a stored attestation surrounds the new one or is surrounded by it; nothing
\* is stored.
C14_SameTargetDecision ==
    \A pk \in Keys, source \in Epochs, target \in Epochs, root \in Roots :
        \A x \in SameTarget(db, pk, target) :
            LET r == check_and_insert_attestation_signing_root(db, pk, source, target, root)
            IN  PassesBounds(db, pk, source, target)
                => /\ r.res = IF x.signing_root = root THEN SameData
                               ELSE DoubleVote(SignedAttestation_from_row(x))
                   /\ r.db = db

\* A validator with a stored attestation x and a second one that surrounds an
\* attestation with the target of x: that attestation is a DoubleVote with x when its
\* root differs, and SameData when its root is that of x although its source differs.
C14_Witness ==
    \E x \in BagToSet(db.signed_attestations), source \in Epochs, root \in Roots :
        LET pk == pubkey_from_str(db.validators[x.validator_id])
        IN  /\ source # x.source_epoch
            /\ root # x.signing_root
            /\ PassesBounds(db, pk, source, x.target_epoch)
            /\ Surrounding(db, pk, source, x.target_epoch) # {}
            /\ check_and_insert_attestation_signing_root(
                  db, pk, source, x.target_epoch, root).res
                     = DoubleVote(SignedAttestation_from_row(x))
            /\ check_and_insert_attestation_signing_root(
                  db, pk, source, x.target_epoch, x.signing_root).res = SameData

(***************************************************************************)
(* Registration (Spec).                                                    *)
(***************************************************************************)
\* The number of rows of validators with the public key pk.
RowsOfKey(d, pk) ==
    Cardinality({i \in 1..Len(d.validators) : d.validators[i] = to_hex_string(pk)})

\* The public keys of a batch.
KeysOf(public_keys) == {public_keys[i] : i \in 1..Len(public_keys)}

\* C15: in every state the validators table has no two rows with one public key;
\* register_validators on any batch, also one that names a key twice, succeeds and
\* leaves exactly one row for every key of the batch and for every key registered
\* before, no row for any other key, the rows registered before in their places and
\* the other tables as they were, and changes nothing at all when every key of the
\* batch was registered before; and no step removes or changes a row of validators.
C15_RegisterIdempotent ==
    /\ [](\A pk \in Keys : RowsOfKey(db, pk) <= 1)
    /\ [](\A public_keys \in KeyBatches :
            LET r == register_validators(db, public_keys)
            IN  /\ r.res = OkUnit
                /\ \A pk \in Keys :
                      RowsOfKey(r.db, pk)
                         = IF pk \in KeysOf(public_keys) \/ RowsOfKey(db, pk) = 1
                           THEN 1 ELSE 0
                /\ SubSeq(r.db.validators, 1, Len(db.validators)) = db.validators
                /\ r.db = [db EXCEPT !.validators = r.db.validators]
                /\ (\A pk \in KeysOf(public_keys) : RowsOfKey(db, pk) = 1)
                   => r.db = db)
    /\ [][SubSeq(db'.validators, 1, Len(db.validators)) = db.validators]_vars

\* A store with one registered validator and a signed block: registering the validator
\* again changes nothing, and a batch that names the other key twice adds one row.
C15_Witness ==
    \E pk \in Keys, other \in Keys :
        /\ db.validators = <<to_hex_string(pk)>>
        /\ other # pk
        /\ db.signed_blocks # EmptyBag
        /\ register_validator(db, pk) = [db |-> db, res |-> OkUnit]
        /\ register_validators(db, <<other, other>>).db.validators
              = <<to_hex_string(pk), to_hex_string(other)>>
        /\ register_validators(db, <<other, pk>>).db
              = register_validators(db, <<other, other>>).db

\* C16: for a public key that has no row in validators (no call registered it),
\* check_and_insert_block with any slot and signing root, check_and_insert_attestation
\* with any source <= target and signing root, and get_validator_id return
\* UnregisteredValidator with the key and leave the store as it was.
C16_UnregisteredValidator ==
    \A pk \in Keys :
        RowsOfKey(db, pk) = 0
        => /\ \A slot \in Slots, root \in Roots :
                 check_and_insert_block_signing_root(db, pk, slot, root)
                    = [db |-> db, res |-> UnregisteredValidator(pk)]
           /\ \A source \in Epochs, target \in Epochs, root \in Roots :
                 source <= target
                 => check_and_insert_attestation_signing_root(db, pk, source, target, root)
                       = [db |-> db, res |-> UnregisteredValidator(pk)]
           /\ get_validator_id(db, pk) = [db |-> db, res |-> UnregisteredValidator(pk)]

\* A store in which one validator is registered and has signed a block, and another
\* public key is not registered: the calls for the other key are refused, and the
\* same calls for the registered key are not.
C16_Witness ==
    \E pk \in Keys, other \in Keys :
        /\ RowsOfKey(db, pk) = 0
        /\ RowsOfKey(db, other) = 1
        /\ db.signed_blocks # EmptyBag
        /\ check_and_insert_block_signing_root(db, pk, 0, ZeroHash).res
              = UnregisteredValidator(pk)
        /\ check_and_insert_attestation_signing_root(db, pk, 0, 0, ZeroHash).res
              = UnregisteredValidator(pk)
        /\ get_validator_id(db, pk).res = UnregisteredValidator(pk)
        /\ check_and_insert_attestation_signing_root(db, other, 0, 0, ZeroHash).res = Valid
        /\ get_validator_id(db, other).res.tag = "Ok"

(***************************************************************************)
(* The checks of the metadata of an interchange document (Spec).           *)
(***************************************************************************)
\* Versions around the supported one.
Versions ==
    {0, SUPPORTED_INTERCHANGE_FORMAT_VERSION - 1, SUPPORTED_INTERCHANGE_FORMAT_VERSION,
     SUPPORTED_INTERCHANGE_FORMAT_VERSION + 1}

\* The documents of Spec with every version and every genesis validators root.
AnyMetadataDocs ==
    {InterchangeDoc(doc.format, version, root, doc.data) :
        doc \in SpecDocs, version \in Versions, root \in GenesisRoots}

\* C17: import_interchange_info of a document whose version is not 3 returns
\* UnsupportedVersion with the version and leaves the store as it was, whether or not
\* the genesis validators root of the document is the caller's and whatever the data.
C17_UnsupportedVersion ==
    \A doc \in AnyMetadataDocs, client \in GenesisRoots :
        doc.version # 3
        => import_interchange_info(db, doc, client)
              = [db |-> db, res |-> UnsupportedVersion(doc.version)]

\* A store with a registered validator and a document of version 2 with the caller's
\* root that is refused, while the same document with version 3 is imported and
\* changes the store.
C17_Witness ==
    \E doc \in AnyMetadataDocs :
        /\ db.validators # <<>>
        /\ doc.version = 2
        /\ doc.genesis_validators_root = ClientRoot
        /\ import_interchange_info(db, doc, ClientRoot)
              = [db |-> db, res |-> UnsupportedVersion(2)]
        /\ LET r == import_interchange_info(db, [doc EXCEPT !.version = 3], ClientRoot)
           IN  r.res = OkUnit /\ r.db # db

\* C18: import_interchange_info of a document of version 3 whose genesis validators
\* root is not the caller's returns GenesisValidatorsMismatch with the caller's root as
\* client and the document's as interchange_file, and leaves the store as it was: no
\* validator, record or lower bound of the document is written.
C18_GenesisValidatorsMismatch ==
    \A doc \in AnyMetadataDocs, client \in GenesisRoots :
        (doc.version = 3 /\ doc.genesis_validators_root # client)
        => import_interchange_info(db, doc, client)
              = [db |-> db,
                 res |-> [tag |-> "GenesisValidatorsMismatch", client |-> client,
                          interchange_file |-> doc.genesis_validators_root]]

\* A store with a registered validator and a document of version 3 with another root
\* that is refused, while the same document with the caller's root is imported,
\* registers a validator and changes the store.
C18_Witness ==
    \E doc \in AnyMetadataDocs :
        /\ db.validators # <<>>
        /\ doc.version = 3
        /\ doc.genesis_validators_root # ClientRoot
        /\ import_interchange_info(db, doc, ClientRoot)
              = [db |-> db,
                 res |-> GenesisValidatorsMismatch(ClientRoot, doc.genesis_validators_root)]
        /\ LET r == import_interchange_info(
                        db, [doc EXCEPT !.genesis_validators_root = ClientRoot], ClientRoot)
           IN  r.res = OkUnit /\ Len(r.db.validators) > Len(db.validators)

(***************************************************************************)
(* The Minimal import (Spec).                                              *)
(***************************************************************************)
\* The record has exactly one of the last signed source and target epochs.
Inconsistent(record) ==
    IsSome(record.last_signed_attestation_source_epoch)
    # IsSome(record.last_signed_attestation_target_epoch)

\* The Minimal documents of Spec and those of one or two records of any kind.
AllMinimalDocs == MinimalDocs \cup {doc \in SpecDocs : doc = MinimalDoc(doc.data)}

\* C19: the import of a Minimal document (version 3, the caller's root) in which some
\* record has exactly one of the last signed source and target epochs returns
\* MinimalAttestationSourceAndTargetInconsistent and leaves the store as it was: no
\* validator of the document is registered and no lower bound is changed, those of
\* the records before the inconsistent one included.
C19_MinimalImportAtomic ==
    \A doc \in AllMinimalDocs :
        (\E i \in 1..Len(doc.data) : Inconsistent(doc.data[i]))
        => import_interchange_info(db, doc, ClientRoot)
              = [db |-> db, res |-> [tag |-> "MinimalAttestationSourceAndTargetInconsistent"]]

\* A store with a registered validator and a document of two records, the second of
\* them inconsistent, that is refused, while the document of its first record alone
\* registers a validator and sets a lower bound.
C19_Witness ==
    \E doc \in AllMinimalDocs :
        /\ db.validators # <<>>
        /\ Len(doc.data) = 2
        /\ ~Inconsistent(doc.data[1])
        /\ Inconsistent(doc.data[2])
        /\ import_interchange_info(db, doc, ClientRoot)
              = [db |-> db, res |-> MinimalAttestationSourceAndTargetInconsistent]
        /\ LET r == import_interchange_info(db, MinimalDoc(<<doc.data[1]>>), ClientRoot)
           IN  /\ r.res = OkUnit
               /\ Len(r.db.validators) > Len(db.validators)
               /\ r.db.lower_bounds # db.lower_bounds

\* The greatest of the values that are present, if any.
OptionMax(options) ==
    LET values == {Unwrap(o) : o \in {x \in options : IsSome(x)}}
    IN  IF values = {} THEN None ELSE Some(SetMax(values))

\* The values of field f in the lower bound that validator pk has in d, if any, and in
\* the records of pk.
FieldValues(d, records, pk, f) ==
    {b[f] : b \in {x \in d.lower_bounds : d.validators[x.validator_id] = to_hex_string(pk)}}
    \cup {MinimalRecordAsLowerBound(records[i])[f] :
            i \in {j \in 1..Len(records) : records[j].pubkey = pk}}

\* The example of C20 on a fresh store: importing (200, 50, 60) and then (150, 40, 60)
\* for one validator leaves the lower bound (200, 50, 60).
C20_Example ==
    LET first == import_interchange_info(
                    EmptyDb, MinimalDoc(<<MinimalRecord(1, Some(200), Some(50), Some(60))>>),
                    ClientRoot)
        second == import_interchange_info(
                    first.db, MinimalDoc(<<MinimalRecord(1, Some(150), Some(40), Some(60))>>),
                    ClientRoot)
    IN  /\ first.res = OkUnit /\ second.res = OkUnit
        /\ second.db = first.db
        /\ get_lower_bound(second.db, 1)
              = Some([block_proposal_slot |-> Some(200),
                      attestation_source_epoch |-> Some(50),
                      attestation_target_epoch |-> Some(60)])

\* C20: the import of a Minimal document (version 3, the caller's root) without
\* inconsistent record succeeds; afterwards every public key of the document has one
\* row in validators and one lower bound, each field of which is the greatest of the
\* values present in the validator's previous lower bound and in its records of the
\* document (absent if none is present); the rows of validators registered before,
\* the lower bounds of the other validators, the blocks and the attestations are as
\* they were; and the example of the claim holds.
C20_MinimalImportMax ==
    /\ \A doc \in AllMinimalDocs :
          LET r == import_interchange_info(db, doc, ClientRoot)
              pks == {doc.data[i].pubkey : i \in 1..Len(doc.data)}
          IN  (\A i \in 1..Len(doc.data) : ~Inconsistent(doc.data[i]))
              => /\ r.res = OkUnit
                 /\ \A pk \in pks : RowsOfKey(r.db, pk) = 1
                 /\ \A pk \in pks :
                       \E b \in r.db.lower_bounds :
                          /\ r.db.validators[b.validator_id] = to_hex_string(pk)
                          /\ \A o \in r.db.lower_bounds :
                                o.validator_id = b.validator_id => o = b
                          /\ \A f \in {"block_proposal_slot", "attestation_source_epoch",
                                       "attestation_target_epoch"} :
                                b[f] = OptionMax(FieldValues(db, doc.data, pk, f))
                 /\ SubSeq(r.db.validators, 1, Len(db.validators)) = db.validators
                 /\ \A pk \in Keys : RowsOfKey(r.db, pk) = 1 => (pk \in pks \/ RowsOfKey(db, pk) = 1)
                 /\ {b \in r.db.lower_bounds :
                        \A pk \in pks : r.db.validators[b.validator_id] # to_hex_string(pk)}
                       = {b \in db.lower_bounds :
                            \A pk \in pks : db.validators[b.validator_id] # to_hex_string(pk)}
                 /\ r.db.signed_blocks = db.signed_blocks
                 /\ r.db.signed_attestations = db.signed_attestations
    /\ C20_Example

\* A validator with a lower bound and a record for it that is lower in one field and
\* higher in another: the import takes the greater value field by field, so the new
\* bound is neither the old one nor the record; and a document that registers a public
\* key that is new.
C20_Witness ==
    /\ \E old \in db.lower_bounds, doc \in AllMinimalDocs :
          LET r == import_interchange_info(db, doc, ClientRoot)
              record == MinimalRecordAsLowerBound(doc.data[1])
              new == Unwrap(get_lower_bound(r.db, old.validator_id))
          IN  /\ Len(doc.data) = 1
              /\ to_hex_string(doc.data[1].pubkey) = db.validators[old.validator_id]
              /\ r.res = OkUnit
              /\ IsSome(old.attestation_source_epoch)
              /\ IsSome(record.attestation_source_epoch)
              /\ IsSome(record.attestation_target_epoch)
              /\ Unwrap(record.attestation_source_epoch)
                    < Unwrap(old.attestation_source_epoch)
              /\ Unwrap(record.attestation_target_epoch)
                    > Unwrap(old.attestation_target_epoch)
              /\ new.attestation_source_epoch = old.attestation_source_epoch
              /\ new.attestation_target_epoch = record.attestation_target_epoch
    /\ \E doc \in AllMinimalDocs :
          LET r == import_interchange_info(db, doc, ClientRoot)
          IN  r.res = OkUnit /\ Len(r.db.validators) > Len(db.validators)

(***************************************************************************)
(* The Complete import (Spec).                                             *)
(***************************************************************************)
\* The calls a Complete document makes, in order: for each record the registration of
\* its public key, then its blocks, then its attestations.
RECURSIVE CallsOfBlocks(_, _)
CallsOfBlocks(pk, blocks) ==
    IF blocks = <<>> THEN <<>>
    ELSE <<BlockCall(pk, Head(blocks).slot, unwrap_or_zero(Head(blocks).signing_root))>>
         \o CallsOfBlocks(pk, Tail(blocks))

RECURSIVE CallsOfAttestations(_, _)
CallsOfAttestations(pk, attestations) ==
    IF attestations = <<>> THEN <<>>
    ELSE <<AttestationCall(pk, Head(attestations).source_epoch,
                           Head(attestations).target_epoch,
                           unwrap_or_zero(Head(attestations).signing_root))>>
         \o CallsOfAttestations(pk, Tail(attestations))

RECURSIVE CallsOf(_)
CallsOf(records) ==
    IF records = <<>> THEN <<>>
    ELSE <<RegisterCall(Head(records).pubkey)>>
         \o CallsOfBlocks(Head(records).pubkey, Head(records).signed_blocks)
         \o CallsOfAttestations(Head(records).pubkey, Head(records).signed_attestations)
         \o CallsOf(Tail(records))

\* The calls run one after the other, each in its own transaction, up to and including
\* the first that does not return Ok, Valid or SameData.
RECURSIVE RunCalls(_, _)
RunCalls(d, calls) ==
    IF calls = <<>> THEN [db |-> d, res |-> OkUnit, done |-> 0]
    ELSE LET r == Sequential(d, Head(calls))
         IN  IF r.res = OkUnit \/ IsSafe(r.res)
             THEN LET rest == RunCalls(r.db, Tail(calls))
                  IN  [rest EXCEPT !.done = @ + 1]
             ELSE [db |-> r.db, res |-> r.res, done |-> 0]

\* The Complete documents of Spec.
CompleteDocs == {doc \in SpecDocs : doc = CompleteDoc(doc.data)}

\* C21: the import of a Complete document (version 3, the caller's root) makes the
\* calls of the document in order, register_validator and check_and_insert_* for every
\* block and attestation, each in its own transaction; it goes on after Valid and after
\* SameData, and at the first call that returns an Invalid* result it stops and returns
\* that error; the store is then the store the calls before the failing one left, in
\* which every row they added is kept.
C21_CompleteImportBestEffort ==
    \A doc \in CompleteDocs :
        LET r == import_interchange_info(db, doc, ClientRoot)
            run == RunCalls(db, CallsOf(doc.data))
        IN  /\ r.db = run.db
            /\ IF run.done = Len(CallsOf(doc.data))
               THEN r.res = OkUnit
               ELSE /\ r.res = InterchangeError_NotSafe(run.res)
                    /\ run.res.tag \in InvalidBlockTags \cup InvalidAttestationTags
                    /\ run.db = RunCalls(db, SubSeq(CallsOf(doc.data), 1, run.done)).db
            /\ db.signed_blocks \sqsubseteq r.db.signed_blocks
            /\ db.signed_attestations \sqsubseteq r.db.signed_attestations
            /\ SubSeq(r.db.validators, 1, Len(db.validators)) = db.validators

\* A validator with a stored block and two documents for it: one whose first block is
\* new and whose second block is a double proposal of the stored one, so that the
\* import fails and the first block stays; and one whose first block is the stored one
\* (SameData) and whose second block is new, which is imported without error.
C21_Witness ==
    \E x \in BagToSet(db.signed_blocks), failing \in CompleteDocs, passing \in CompleteDocs :
        LET pk == pubkey_from_str(db.validators[x.validator_id])
            f == import_interchange_info(db, failing, ClientRoot)
            g == import_interchange_info(db, passing, ClientRoot)
        IN  /\ Len(failing.data) = 1 /\ failing.data[1].pubkey = pk
            /\ Len(failing.data[1].signed_blocks) = 2
            /\ f.res = InterchangeError_NotSafe(
                           DoubleBlockProposal(SignedBlock_from_row(x)))
            /\ BagCardinality(f.db.signed_blocks) = BagCardinality(db.signed_blocks) + 1
            /\ Len(passing.data) = 1 /\ passing.data[1].pubkey = pk
            /\ Len(passing.data[1].signed_blocks) = 2
            /\ check_and_insert_block_signing_root(
                  db, pk, passing.data[1].signed_blocks[1].slot,
                  unwrap_or_zero(passing.data[1].signed_blocks[1].signing_root)).res
                     = SameData
            /\ g.res = OkUnit
            /\ BagCardinality(g.db.signed_blocks) = BagCardinality(db.signed_blocks) + 1

(***************************************************************************)
(* Export (Spec).                                                          *)
(***************************************************************************)
\* C22: export_interchange_info returns a document for every store and every root the
\* caller gives; every document it may return has version 3 and the caller's root, and
\* is Minimal (records of last signed values) if lower_bounds has a row and Complete
\* (records of blocks and attestations) if it has none.
C22_ExportFormat ==
    \A root \in GenesisRoots :
        /\ export_interchange_info(db, root) # {}
        /\ \A doc \in export_interchange_info(db, root) :
              /\ doc.version = 3
              /\ doc.genesis_validators_root = root
              /\ doc.format = IF Cardinality(db.lower_bounds) >= 1
                              THEN "Minimal" ELSE "Complete"
              /\ \A i \in 1..Len(doc.data) :
                    DOMAIN doc.data[i]
                       = IF Cardinality(db.lower_bounds) >= 1
                         THEN {"pubkey", "last_signed_block_slot",
                               "last_signed_attestation_source_epoch",
                               "last_signed_attestation_target_epoch"}
                         ELSE {"pubkey", "signed_blocks", "signed_attestations"}

\* A store in which a validator has a lower bound and a signed block: the export is
\* Minimal although there is history to export, with the root the caller gives.
C22_Witness ==
    /\ Cardinality(db.lower_bounds) = 1
    /\ db.signed_blocks # EmptyBag
    /\ \A doc \in export_interchange_info(db, "other_root") :
          /\ doc.format = "Minimal"
          /\ doc.genesis_validators_root = "other_root"
          /\ Len(doc.data) = Len(db.validators)

\* The stored blocks of the validator with public key pk, and its lower bounds.
BlocksOf(d, pk) ==
    {x \in BagToSet(d.signed_blocks) : d.validators[x.validator_id] = to_hex_string(pk)}

BoundsOf(d, pk) ==
    {b \in d.lower_bounds : d.validators[b.validator_id] = to_hex_string(pk)}

\* C23: the Minimal export returns one document, which has exactly one record for every
\* registered public key and none for any other; the last signed block slot of the
\* record is the greatest of the slots of the validator's stored blocks and the block
\* slot of its lower bound, and likewise the source and the target epoch over its
\* stored attestations and its lower bound; a field is absent exactly when the
\* validator has no stored row and no bound for it.
C23_MinimalExport ==
    \A root \in GenesisRoots :
        /\ Cardinality(export_minimal_interchange_info(db, root)) = 1
        /\ \A doc \in export_minimal_interchange_info(db, root) :
              /\ Len(doc.data) = Len(db.validators)
              /\ \A pk \in Keys :
                    Cardinality({i \in 1..Len(doc.data) : doc.data[i].pubkey = pk})
                       = RowsOfKey(db, pk)
              /\ \A i \in 1..Len(doc.data) :
                    LET pk == doc.data[i].pubkey
                    IN  /\ doc.data[i].last_signed_block_slot
                              = OptionMax({Some(x.slot) : x \in BlocksOf(db, pk)}
                                          \cup {b.block_proposal_slot : b \in BoundsOf(db, pk)})
                        /\ doc.data[i].last_signed_attestation_source_epoch
                              = OptionMax({Some(x.source_epoch) : x \in AttestationsOf(db, pk)}
                                          \cup {b.attestation_source_epoch :
                                                  b \in BoundsOf(db, pk)})
                        /\ doc.data[i].last_signed_attestation_target_epoch
                              = OptionMax({Some(x.target_epoch) : x \in AttestationsOf(db, pk)}
                                          \cup {b.attestation_target_epoch :
                                                  b \in BoundsOf(db, pk)})

\* A validator with a stored attestation and a lower bound whose source epoch is above
\* and whose target epoch is below those of the attestation: the record takes the
\* source of the bound and the target of the attestation, and has no block slot.
C23_Witness ==
    \E x \in BagToSet(db.signed_attestations), b \in db.lower_bounds :
        /\ b.validator_id = x.validator_id
        /\ IsSome(b.attestation_source_epoch)
        /\ Unwrap(b.attestation_source_epoch) > x.source_epoch
        /\ Unwrap(b.attestation_target_epoch) < x.target_epoch
        /\ \A doc \in export_interchange_info(db, ClientRoot) :
              \E i \in 1..Len(doc.data) :
                 doc.data[i] = MinimalRecord(pubkey_from_str(db.validators[x.validator_id]),
                                             None, b.attestation_source_epoch,
                                             Some(x.target_epoch))

\* What C24 says of the Complete export of store d.
CompleteExportOf(d) ==
    /\ export_complete_interchange_info(d, ClientRoot) # {}
    /\ \A doc \in export_complete_interchange_info(d, ClientRoot) :
          /\ \A pk \in Keys :
                Cardinality({i \in 1..Len(doc.data) : doc.data[i].pubkey = pk})
                   = IF BlocksOf(d, pk) \cup AttestationsOf(d, pk) # {} THEN 1 ELSE 0
          /\ \A i \in 1..Len(doc.data) :
                /\ doc.data[i].pubkey \in Keys
                /\ \A j \in 1..Len(doc.data) :
                      i < j => doc.data[i].pubkey < doc.data[j].pubkey
                /\ Len(doc.data[i].signed_blocks)
                      = Cardinality(BlocksOf(d, doc.data[i].pubkey))
                /\ {doc.data[i].signed_blocks[k] : k \in 1..Len(doc.data[i].signed_blocks)}
                      = {[slot |-> x.slot, signing_root |-> Some(x.signing_root)] :
                            x \in BlocksOf(d, doc.data[i].pubkey)}
                /\ Len(doc.data[i].signed_attestations)
                      = Cardinality(AttestationsOf(d, doc.data[i].pubkey))
                /\ {doc.data[i].signed_attestations[k] :
                        k \in 1..Len(doc.data[i].signed_attestations)}
                      = {[source_epoch |-> x.source_epoch, target_epoch |-> x.target_epoch,
                          signing_root |-> Some(x.signing_root)] :
                            x \in AttestationsOf(d, doc.data[i].pubkey)}
          /\ (d.signed_blocks = EmptyBag /\ d.signed_attestations = EmptyBag)
             => doc.data = <<>>

\* C24: every document the Complete export may return has exactly one record for each
\* validator that has a stored block or attestation and none for any other, the
\* records in the order of their public keys, and the blocks and attestations of a
\* record are the stored rows of its validator, each once; a store without blocks and
\* attestations exports the empty list.  This holds of every store, and of the store
\* one more accepted block or attestation leads to.
C24_CompleteExport ==
    /\ CompleteExportOf(db)
    /\ \A pk \in Keys :
          /\ CompleteExportOf(
                check_and_insert_block_signing_root(db, pk, MaxSlot, ZeroHash).db)
          /\ CompleteExportOf(
                check_and_insert_attestation_signing_root(
                    db, pk, MaxEpoch, MaxEpoch, ZeroHash).db)

\* Two validators, the one with the greater public key registered first and with a
\* stored block: once the other signs a block too, the export has two records, that of
\* the smaller public key first, each with the block of its validator.
C24_Witness ==
    /\ db.validators = <<to_hex_string(2), to_hex_string(1)>>
    /\ BlocksOf(db, 2) # {}
    /\ BlocksOf(db, 1) = {}
    /\ \A doc \in export_complete_interchange_info(db, ClientRoot) :
          Len(doc.data) = 1 /\ doc.data[1].pubkey = 2
    /\ LET r == check_and_insert_block_signing_root(db, 1, MaxSlot, ZeroHash)
       IN  /\ r.res = Valid
           /\ \A doc \in export_complete_interchange_info(r.db, ClientRoot) :
                 /\ Len(doc.data) = 2
                 /\ doc.data[1]
                       = CompleteRecord(1, <<[slot |-> MaxSlot,
                                              signing_root |-> Some(ZeroHash)]>>, <<>>)
                 /\ doc.data[2].pubkey = 2
                 /\ Len(doc.data[2].signed_blocks) = 1

(***************************************************************************)
(* Nothing is deleted (Spec).                                              *)
(***************************************************************************)
\* C28: in every step the rows of validators stay, in their places, and every row of
\* signed_blocks and of signed_attestations stays: the three tables only grow, also
\* in an import that sets a lower bound at or above stored rows.
C28_NothingDeleted ==
    [][/\ SubSeq(db'.validators, 1, Len(db.validators)) = db.validators
       /\ db.signed_blocks \sqsubseteq db'.signed_blocks
       /\ db.signed_attestations \sqsubseteq db'.signed_attestations]_vars

\* A validator with a stored block and a lower bound at or above its slot: the import
\* of the bound has kept the block, which the bound now refuses to sign again.
C28_Witness ==
    \E x \in BagToSet(db.signed_blocks), b \in db.lower_bounds :
        /\ b.validator_id = x.validator_id
        /\ IsSome(b.block_proposal_slot) /\ Unwrap(b.block_proposal_slot) >= x.slot
        /\ check_and_insert_block_signing_root(
              db, pubkey_from_str(db.validators[x.validator_id]), x.slot,
              x.signing_root).res.tag = "SlotViolatesLowerBound"

(***************************************************************************)
(* Connection timeout and operations that stop before their commit.        *)
(***************************************************************************)
\* C29: a call that stops waiting for the connection while another operation holds it
\* returns the pool's error, which is neither a Safe result nor Ok, and the step leaves
\* the database unchanged; the call never held the connection or a transaction, and it
\* is no part of the sequential execution of the calls.
C29_TimeoutStorageError ==
    /\ [][\A t \in Threads :
            (pc[t] = "waiting" /\ pc'[t] # "waiting" /\ conn # {})
            => /\ ret'[t] = SQLPoolError
               /\ ~IsSafe(ret'[t]) /\ ret'[t] # OkUnit
               /\ db' = db
               /\ t \notin conn' /\ txn'[t] = NoTxn]_vars
    /\ [](\A t \in Threads :
            /\ pc[t] = "waiting" => (t \notin conn /\ txn[t] = NoTxn)
            /\ ret[t] = SQLPoolError
               => (pc[t] = "done" /\ t \notin conn /\ txn[t] = NoTxn
                   /\ lin.ret[t] = NotRun))

\* A block call that gave up waiting while the other thread held the connection: the
\* block is not in the database, where signing it is as Valid as it was.
C29_Witness ==
    \E t \in Threads :
        /\ ret[t] = SQLPoolError /\ pc[t] = "done"
        /\ call[t].op = "block"
        /\ conn \ {t} # {}
        /\ check_block_proposal(lin.start[t], call[t].validator_pubkey, call[t].slot,
                                call[t].signing_root) = Valid
        /\ check_block_proposal(db, call[t].validator_pubkey, call[t].slot,
                                call[t].signing_root) = Valid

\* C30: the database changes only in the commit of a transaction, to the database of
\* that transaction; an operation that starts reads the committed database; a step that
\* ends an operation with an error leaves the database unchanged; and the committed
\* database and the results of the operations that committed are those of the
\* sequential execution of the operations without the ones that stopped.
C30_NoTraceOfUncommitted ==
    /\ [][/\ db' # db
             => \E t \in Threads : /\ pc[t] = "commit" /\ pc'[t] = "done"
                                    /\ db' = txn[t].db
                                    /\ (IsSafe(ret'[t]) \/ ret'[t] = OkUnit)
          /\ \A t \in Threads :
                /\ (t \notin conn /\ t \in conn') => txn'[t].db = db
                /\ (pc[t] # "done" /\ pc'[t] = "done"
                    /\ ~IsSafe(ret'[t]) /\ ret'[t] # OkUnit) => db' = db]_vars
    /\ [](/\ conn = {} => db = lin.db
          /\ \A t \in Threads :
                (pc[t] = "done" /\ call[t].op # "register" /\ lin.ret[t] # NotRun)
                => ret[t] = lin.ret[t])

\* An import that stopped after it had written a block lower bound inside its
\* transaction, and a block of the same validator at a slot under that bound which
\* another operation found Valid and stored: the committed database has no bound.
C30_Witness ==
    \E t \in Threads, u \in Threads :
        /\ u # t
        /\ pc[t] = "done" /\ call[t].op = "import" /\ ret[t] = SQLError
        /\ \E b \in lin.undone[t].lower_bounds :
              /\ IsSome(b.block_proposal_slot)
              /\ call[u].op = "block" /\ pc[u] = "done" /\ ret[u] = Valid
              /\ call[u].slot <= Unwrap(b.block_proposal_slot)
        /\ db.lower_bounds = {}
        /\ BagCardinality(db.signed_blocks) = 1

(***************************************************************************)
(* The database file and its sessions.                                     *)
(***************************************************************************)
IsErr(r) == r.tag # "Ok"

\* C25: open on a path without a file returns an error and leaves the path empty;
\* create on a path with a file, whatever the file is and also when no session is open
\* on it any more, returns an error and leaves the file and the sessions as they were;
\* create on an empty path returns a session on a new database; open_or_create does
\* what open does when path.exists() returned true and what create does otherwise.
C25_OpenCreateSemantics ==
    /\ (last.op = "open" /\ last.file = "absent")
          => (IsErr(last.res) /\ file = "absent" /\ sessions = last.sessions)
    /\ (last.op = "create" /\ last.file # "absent")
          => (IsErr(last.res) /\ file = last.file /\ sessions = last.sessions)
    /\ (last.op = "create" /\ last.file = "absent")
          => (last.res = OkSession(last.id) /\ file = "database"
              /\ sessions[last.id].via = "create")
    /\ last.op = "open_or_create: exists"
          => LET r == open(last.file, last.sessions, last.proc, last.id)
             IN  last.res = r.res /\ file = r.file /\ sessions = r.sessions
    /\ last.op = "open_or_create: missing"
          => LET r == create(last.file, last.sessions, last.proc, last.id)
             IN  last.res = r.res /\ file = r.file /\ sessions = r.sessions

\* create on the database of a session that was dropped: an error.
C25_Witness ==
    /\ last.op = "create" /\ last.file = "database" /\ Live(last.sessions) = {}
    /\ IsErr(last.res) /\ file = "database" /\ Live(sessions) = {}

\* C26: an open of the file while a session obtained by create or by open is open on it
\* returns an error and yields no session.
C26_SecondOpenFails ==
    (last.op = "open" /\ Live(last.sessions) # {})
    => (IsErr(last.res) /\ sessions = last.sessions)

\* C27: every session, from create or from open, has a pool of maximum size 1 whose
\* connection has foreign keys on and locking mode EXCLUSIVE, and at most one thread
\* holds a connection of the session.
C27_PoolOfOne ==
    \A i \in Live(sessions) :
        /\ sessions[i].via \in {"create", "open"}
        /\ sessions[i].max_size = 1
        /\ sessions[i].foreign_keys
        /\ sessions[i].locking_mode = "EXCLUSIVE"
        /\ Cardinality(sessions[i].holders) <= 1

\* A session from open whose connection one thread holds after the other thread wrote
\* with it.
C27_Witness ==
    \E i \in Live(sessions), t \in Threads :
        /\ sessions[i].via = "open"
        /\ sessions[i].holders = {t}
        /\ sessions[i].lock = "EXCLUSIVE"
        /\ last.op = "get"

(***************************************************************************)
(* Order of the checks.                                                    *)
(***************************************************************************)
\* C31: for every stored block of a validator whose block lower bound is at or above
\* the block's slot, check_block_proposal at that slot returns SlotViolatesLowerBound
\* with the slot and the bound, for the stored signing root (an identical block) as for
\* any other root, and check_and_insert_block returns the same and stores nothing.
C31_LowerBoundBeforeLookup ==
    \A v \in BlockBounds(db) :
        \A x \in BlocksOf(db, v.pk) :
            x.slot <= v.bound
            => \A root \in Roots :
                  /\ check_block_proposal(db, v.pk, x.slot, root)
                        = SlotViolatesLowerBound(x.slot, v.bound)
                  /\ check_and_insert_block_signing_root(db, v.pk, x.slot, root)
                        = [db |-> db, res |-> SlotViolatesLowerBound(x.slot, v.bound)]

\* A stored block at or under the block lower bound of its validator, signed again
\* with its own root: refused for the bound, where the lookup alone finds SameData.
C31_Witness ==
    \E v \in BlockBounds(db) :
        \E x \in BlocksOf(db, v.pk) :
            /\ x.slot <= v.bound
            /\ select_block(db, v.id, x.slot) = Some(SignedBlock_from_row(x))
            /\ check_block_proposal(db, v.pk, x.slot, x.signing_root)
                  = SlotViolatesLowerBound(x.slot, v.bound)

\* C32: the result of check_attestation is that of the first test that fires in the
\* order source > target, unregistered validator, source under the source lower bound,
\* target at or under the target lower bound, stored attestation with the same target
\* (SameData for the same signing root, DoubleVote otherwise), stored attestation that
\* surrounds the new one, stored attestation that the new one surrounds; Valid when
\* none fires.  So an unregistered validator gets SourceExceedsTarget for source >
\* target, and an attestation under both lower bounds SourceLessThanLowerBound.
C32_CheckOrder ==
    \A pk \in Keys, source \in BoundEpochs, target \in BoundEpochs, root \in Roots :
        check_attestation(db, pk, source, target, root).tag
        = IF source > target THEN "SourceExceedsTarget"
          ELSE IF RowsOfKey(db, pk) = 0 THEN "UnregisteredValidator"
          ELSE IF \E b \in BoundsOf(db, pk) :
                     /\ IsSome(b.attestation_source_epoch)
                     /\ source < Unwrap(b.attestation_source_epoch)
          THEN "SourceLessThanLowerBound"
          ELSE IF \E b \in BoundsOf(db, pk) :
                     /\ IsSome(b.attestation_target_epoch)
                     /\ target <= Unwrap(b.attestation_target_epoch)
          THEN "TargetLessThanOrEqLowerBound"
          ELSE IF \E x \in SameTarget(db, pk, target) : x.signing_root = root
          THEN "SameData"
          ELSE IF SameTarget(db, pk, target) # {} THEN "DoubleVote"
          ELSE IF Surrounding(db, pk, source, target) # {} THEN "PrevSurroundsNew"
          ELSE IF Surrounded(db, pk, source, target) # {} THEN "NewSurroundsPrev"
          ELSE "Valid"

\* One validator with attestation lower bounds and an attestation under both of them,
\* and one unregistered validator with an attestation whose source is above its target.
C32_Witness ==
    /\ \E v \in AttestationBounds(db) :
          /\ v.source > 0
          /\ check_attestation(db, v.pk, v.source - 1, v.target, ZeroHash)
                = SourceLessThanLowerBound(v.source - 1, v.source)
    /\ \E pk \in Keys :
          /\ RowsOfKey(db, pk) = 0
          /\ check_attestation(db, pk, 1, 0, ZeroHash) = SourceExceedsTarget

\* The database, and the databases it becomes when one more attestation, with the
\* target epoch after the last epoch of the steps, is accepted.
WithLaterAttestation(d) ==
    {d} \cup {check_and_insert_attestation_signing_root(
                  d, pk, source, MaxEpoch + 1, ZeroHash).db :
                pk \in Keys, source \in {0, 1}}

\* C33: the attestation that check_attestation reports in PrevSurroundsNew is a stored
\* attestation of the validator that surrounds the new one, and none of those that
\* surround the new one has a greater target epoch; likewise the one reported in
\* NewSurroundsPrev among the stored attestations that the new one surrounds.
C33_GreatestTargetReported ==
    \A d \in WithLaterAttestation(db) :
        \A pk \in Keys, source \in BoundEpochs, target \in BoundEpochs :
            LET r == check_attestation(d, pk, source, target, ZeroHash)
                among == IF r.tag = "PrevSurroundsNew"
                         THEN Surrounding(d, pk, source, target)
                         ELSE Surrounded(d, pk, source, target)
            IN  r.tag \in {"PrevSurroundsNew", "NewSurroundsPrev"}
                => /\ \E x \in among : r.prev = SignedAttestation_from_row(x)
                   /\ \A x \in among : x.target_epoch <= r.prev.target_epoch

\* Two stored attestations of one validator that a new attestation surrounds, reported
\* with the one of the greater target.
C33_Witness ==
    \E pk \in Keys, source \in BoundEpochs, target \in BoundEpochs :
        /\ Cardinality(Surrounded(db, pk, source, target)) = 2
        /\ \E x \in Surrounded(db, pk, source, target) :
              /\ check_attestation(db, pk, source, target, ZeroHash)
                    = NewSurroundsPrev(SignedAttestation_from_row(x))
              /\ \E y \in Surrounded(db, pk, source, target) :
                    y.target_epoch < x.target_epoch

\* A stored attestation that surrounds a new one and, once an attestation with a later
\* target is accepted, two that surround it, reported with the later one.
C33_WitnessPrevSurroundsNew ==
    \E d \in WithLaterAttestation(db), pk \in Keys, source \in BoundEpochs :
        /\ Cardinality(Surrounding(d, pk, source, source)) = 2
        /\ \E x \in Surrounding(d, pk, source, source) :
              /\ x.target_epoch = MaxEpoch + 1
              /\ check_attestation(d, pk, source, source, ZeroHash)
                    = PrevSurroundsNew(SignedAttestation_from_row(x))
(***************************************************************************)
(* Records without signing root in a Complete import.                      *)
(***************************************************************************)
\* A Complete document with one record for pk: two blocks without signing root at one
\* slot, or two attestations without signing root with one target epoch.
RootlessBlocks(pk, slot) ==
    CompleteDoc(<<CompleteRecord(pk, <<[slot |-> slot, signing_root |-> None],
                                       [slot |-> slot, signing_root |-> None]>>, <<>>)>>)

RootlessAttestations(pk, source1, source2, target) ==
    CompleteDoc(<<CompleteRecord(pk, <<>>, <<AttestationItem(source1, target, None),
                                             AttestationItem(source2, target, None)>>)>>)

\* The source epoch of the attestation lower bound of pk, 0 without one.
SourceBound(d, pk) ==
    SetMax({0} \cup {Unwrap(b.attestation_source_epoch) :
                        b \in {x \in BoundsOf(d, pk) : IsSome(x.attestation_source_epoch)}})

\* C34 as stated: when the first of two records without signing root is Valid, the
\* import stores it with the zero hash, finds the second one, at the same slot or with
\* the same target epoch and any source epoch, to be SameData and returns Ok; after it
\* every signing at the slot or target with another root returns DoubleBlockProposal
\* or DoubleVote with the stored record.
C34_RootlessRecords ==
    \A pk \in Keys :
        LET d0 == register_validator(db, pk).db
        IN  /\ \A slot \in Slots :
                  check_block_proposal(d0, pk, slot, ZeroHash) = Valid
                  => LET r == import_interchange_info(db, RootlessBlocks(pk, slot), ClientRoot)
                         row == [slot |-> slot, signing_root |-> ZeroHash]
                     IN  /\ r.res = OkUnit
                         /\ r.db = insert_block_proposal(d0, pk, slot, ZeroHash).db
                         /\ \A root \in Roots \ {ZeroHash} :
                               check_and_insert_block_signing_root(r.db, pk, slot, root)
                                  = [db |-> r.db, res |-> DoubleBlockProposal(row)]
            /\ \A target \in Epochs, source1 \in Epochs, source2 \in BoundEpochs :
                  check_attestation(d0, pk, source1, target, ZeroHash) = Valid
                  => LET r == import_interchange_info(
                                 db, RootlessAttestations(pk, source1, source2, target),
                                 ClientRoot)
                         row == [source_epoch |-> source1, target_epoch |-> target,
                                 signing_root |-> ZeroHash]
                     IN  /\ r.res = OkUnit
                         /\ r.db = insert_attestation(d0, pk, source1, target, ZeroHash).db
                         /\ \A source \in BoundEpochs, root \in Roots \ {ZeroHash} :
                               check_and_insert_attestation_signing_root(
                                  r.db, pk, source, target, root)
                                  = [db |-> r.db, res |-> DoubleVote(row)]

\* The result of check_attestation for an attestation with the target epoch of the
\* stored attestation `row` when a test before the lookup of the target refuses it,
\* and `otherwise` when none does.
UnlessRefusedBefore(d, pk, source, target, otherwise) ==
    IF source > target THEN SourceExceedsTarget
    ELSE IF source < SourceBound(d, pk)
    THEN SourceLessThanLowerBound(source, SourceBound(d, pk))
    ELSE otherwise

\* C34, amended: the same, but the tests that check_attestation makes before it looks
\* up the target epoch also apply to the second record and to the later signing: a
\* source epoch above the target or under the source lower bound of the validator is
\* refused with SourceExceedsTarget or SourceLessThanLowerBound, which ends the import
\* with that error after the first record was stored.  And in every later state a
\* signing with another root at the slot or target of a stored record with the zero
\* hash is refused and stores nothing: with DoubleBlockProposal or DoubleVote and the
\* stored record, or by a test that comes before the lookup (a lower bound imported
\* since then, a source epoch above the target).
C34_RootlessRecordsInOrder ==
    /\ [](\A pk \in Keys :
              LET d0 == register_validator(db, pk).db
              IN  /\ \A slot \in Slots :
                        check_block_proposal(d0, pk, slot, ZeroHash) = Valid
                        => LET r == import_interchange_info(db, RootlessBlocks(pk, slot), ClientRoot)
                               row == [slot |-> slot, signing_root |-> ZeroHash]
                           IN  /\ r.res = OkUnit
                               /\ r.db = insert_block_proposal(d0, pk, slot, ZeroHash).db
                               /\ \A root \in Roots \ {ZeroHash} :
                                     check_and_insert_block_signing_root(r.db, pk, slot, root)
                                        = [db |-> r.db, res |-> DoubleBlockProposal(row)]
                  /\ \A target \in Epochs, source1 \in Epochs, source2 \in BoundEpochs :
                        check_attestation(d0, pk, source1, target, ZeroHash) = Valid
                        => LET r == import_interchange_info(
                                       db, RootlessAttestations(pk, source1, source2, target),
                                       ClientRoot)
                               row == [source_epoch |-> source1, target_epoch |-> target,
                                       signing_root |-> ZeroHash]
                               second == UnlessRefusedBefore(d0, pk, source2, target, SameData)
                           IN  /\ r.res = IF second = SameData THEN OkUnit
                                           ELSE InterchangeError_NotSafe(second)
                               /\ r.db = insert_attestation(d0, pk, source1, target, ZeroHash).db
                               /\ \A source \in BoundEpochs, root \in Roots \ {ZeroHash} :
                                     check_and_insert_attestation_signing_root(
                                        r.db, pk, source, target, root)
                                        = [db |-> r.db,
                                           res |-> UnlessRefusedBefore(r.db, pk, source, target,
                                                                       DoubleVote(row))])
    /\ [](\A pk \in Keys, root \in Roots \ {ZeroHash} :
            /\ \A x \in BlocksOf(db, pk) :
                  x.signing_root = ZeroHash
                  => check_and_insert_block_signing_root(db, pk, x.slot, root)
                        \in {[db |-> db,
                              res |-> DoubleBlockProposal(SignedBlock_from_row(x))]}
                            \cup {[db |-> db,
                                   res |-> SlotViolatesLowerBound(x.slot, v.bound)] :
                                     v \in {w \in BlockBounds(db) : w.pk = pk}}
            /\ \A x \in AttestationsOf(db, pk), source \in BoundEpochs :
                  x.signing_root = ZeroHash
                  => LET r == check_and_insert_attestation_signing_root(
                                 db, pk, source, x.target_epoch, root)
                     IN  /\ r.db = db
                         /\ IF PassesBounds(db, pk, source, x.target_epoch)
                            THEN r.res = DoubleVote(SignedAttestation_from_row(x))
                            ELSE r.res.tag \in {"SourceExceedsTarget",
                                                "SourceLessThanLowerBound",
                                                "TargetLessThanOrEqLowerBound"})

\* A validator with a source lower bound above 0 and an attestation that is Valid: the
\* import of the attestation and one with its target and a source under the bound,
\* both without signing root, stores the first and ends with SourceLessThanLowerBound;
\* with the source of the first for the second it returns Ok.
C34_Witness ==
    \E pk \in Keys, target \in Epochs, source1 \in Epochs :
        /\ SourceBound(db, pk) > 0
        /\ check_attestation(db, pk, source1, target, ZeroHash) = Valid
        /\ import_interchange_info(
              db, RootlessAttestations(pk, source1, 0, target), ClientRoot).res
                 = InterchangeError_NotSafe(
                      SourceLessThanLowerBound(0, SourceBound(db, pk)))
        /\ import_interchange_info(
              db, RootlessAttestations(pk, source1, source1, target), ClientRoot).res
                 = OkUnit

(***************************************************************************)
(* What check_and_insert_* reads and writes.                               *)
(***************************************************************************)
\* The database without the attestations and without the blocks of the validators other
\* than pk, and the one without the blocks and without the attestations of the others.
OnlyBlocksOf(d, pk) ==
    [d EXCEPT !.signed_attestations = EmptyBag,
              !.signed_blocks = SetToBag(BlocksOf(d, pk))]

OnlyAttestationsOf(d, pk) ==
    [d EXCEPT !.signed_blocks = EmptyBag,
              !.signed_attestations = SetToBag(AttestationsOf(d, pk))]

\* C35: check_and_insert_block leaves the validators, the attestations and the lower
\* bounds as they are; the blocks after it are the blocks before it and, when it
\* returns Valid, one more row, which has the id of the calling validator, the slot and
\* the signing root; and it returns what it returns on the database without the
\* attestations and the other validators' blocks.  Likewise check_and_insert_attestation
\* with blocks and attestations exchanged.
C35_FrameOfCheckAndInsert ==
    [](\A pk \in Keys :
         /\ \A slot \in Slots, root \in Roots :
               LET r == check_and_insert_block_signing_root(db, pk, slot, root)
                   added == IF r.res = Valid
                            THEN {[validator_id |-> i, slot |-> slot, signing_root |-> root] :
                                    i \in {j \in 1..Len(db.validators) :
                                             db.validators[j] = to_hex_string(pk)}}
                            ELSE {}
               IN  /\ r.db.validators = db.validators
                   /\ r.db.signed_attestations = db.signed_attestations
                   /\ r.db.lower_bounds = db.lower_bounds
                   /\ r.db.signed_blocks = db.signed_blocks (+) SetToBag(added)
                   /\ r.res = Valid => Cardinality(added) = 1
                   /\ r.res = check_and_insert_block_signing_root(
                                  OnlyBlocksOf(db, pk), pk, slot, root).res
         /\ \A source \in Epochs, target \in Epochs, root \in Roots :
               LET r == check_and_insert_attestation_signing_root(
                           db, pk, source, target, root)
                   added == IF r.res = Valid
                            THEN {[validator_id |-> i, source_epoch |-> source,
                                   target_epoch |-> target, signing_root |-> root] :
                                    i \in {j \in 1..Len(db.validators) :
                                             db.validators[j] = to_hex_string(pk)}}
                            ELSE {}
               IN  /\ r.db.validators = db.validators
                   /\ r.db.signed_blocks = db.signed_blocks
                   /\ r.db.lower_bounds = db.lower_bounds
                   /\ r.db.signed_attestations = db.signed_attestations (+) SetToBag(added)
                   /\ r.res = Valid => Cardinality(added) = 1
                   /\ r.res = check_and_insert_attestation_signing_root(
                                  OnlyAttestationsOf(db, pk), pk, source, target, root).res)

\* A store with two validators and a block of one of them, in which the other one signs
\* a block with another root at the same slot: Valid, whatever the first one stored.
C35_Witness ==
    \E x \in BagToSet(db.signed_blocks), pk \in Keys, root \in Roots :
        /\ pk # pubkey_from_str(db.validators[x.validator_id])
        /\ root # x.signing_root
        /\ check_and_insert_block_signing_root(db, pk, x.slot, root).res = Valid

(***************************************************************************)
(* Constraints of the schema.                                              *)
(***************************************************************************)
\* C36: whenever check_block_proposal or check_attestation returns Valid, the INSERT of
\* the same call succeeds: the validator row exists (FOREIGN KEY) and no row has the
\* validator and the slot, or the validator and the target epoch (UNIQUE); so no
\* check_and_insert_* call returns the error of a failed INSERT.
C36_InsertAfterValid ==
    \A pk \in Keys, root \in Roots :
        /\ \A slot \in Slots :
              /\ check_block_proposal(db, pk, slot, root) = Valid
                    => insert_block_proposal(db, pk, slot, root).ok
              /\ check_and_insert_block_signing_root(db, pk, slot, root).res # SQLError
        /\ \A source \in BoundEpochs, target \in BoundEpochs :
              /\ check_attestation(db, pk, source, target, root) = Valid
                    => insert_attestation(db, pk, source, target, root).ok
              /\ check_and_insert_attestation_signing_root(
                    db, pk, source, target, root).res # SQLError

\* A validator with a stored block and a stored attestation for whom another block and
\* another attestation are Valid, and are inserted.
C36_Witness ==
    \E x \in BagToSet(db.signed_blocks), y \in BagToSet(db.signed_attestations) :
        LET pk == pubkey_from_str(db.validators[x.validator_id])
        IN  /\ y.validator_id = x.validator_id
            /\ \E slot \in Slots :
                  /\ check_block_proposal(db, pk, slot, ZeroHash) = Valid
                  /\ insert_block_proposal(db, pk, slot, ZeroHash).ok
            /\ \E source \in BoundEpochs, target \in BoundEpochs :
                  /\ check_attestation(db, pk, source, target, ZeroHash) = Valid
                  /\ insert_attestation(db, pk, source, target, ZeroHash).ok


(***************************************************************************)
(* Migration by a Minimal export.                                          *)
(***************************************************************************)
BoundSlots == 0..(MaxSlot + 1)

\* The states of a fresh store that imported the Minimal export of d: as imported, and
\* after one more block or attestation that it accepted.
MigratedStores(d) ==
    UNION {LET copy == import_interchange_info(EmptyDb, doc, ClientRoot).db
           IN  {copy}
               \cup {check_and_insert_block_signing_root(copy, pk, slot, ZeroHash).db :
                        pk \in Keys, slot \in BoundSlots}
               \cup {check_and_insert_attestation_signing_root(
                        copy, pk, source, target, ZeroHash).db :
                        pk \in Keys, source \in BoundEpochs, target \in BoundEpochs} :
           doc \in export_minimal_interchange_info(d, ClientRoot)}

\* C37: let the store be exported in Minimal format and the document imported into a
\* fresh store. Every block the fresh store then finds Valid has a slot at which the
\* exporting store holds no block of the validator, and every attestation it finds Valid
\* has a target for which the exporting store holds no attestation of the validator,
\* surrounds none of them and is surrounded by none of them.
C37_MinimalMigrationNoRegression ==
    [](\A B \in MigratedStores(db), pk \in Keys, root \in Roots :
          /\ \A slot \in BoundSlots :
                check_block_proposal(B, pk, slot, root) = Valid
                   => \A x \in BlocksOf(db, pk) : x.slot # slot
          /\ \A source \in BoundEpochs, target \in BoundEpochs :
                check_attestation(B, pk, source, target, root) = Valid
                   => /\ SameTarget(db, pk, target) = {}
                      /\ Surrounding(db, pk, source, target) = {}
                      /\ Surrounded(db, pk, source, target) = {})

\* A validator with two stored attestations of different sources: the fresh store
\* accepts a later attestation of the validator from the greatest stored source, and
\* refuses the one from the least stored source, which surrounds a stored attestation.
C37_Witness ==
    \E y \in BagToSet(db.signed_attestations), z \in BagToSet(db.signed_attestations) :
        LET pk == pubkey_from_str(db.validators[y.validator_id])
        IN  /\ z.validator_id = y.validator_id
            /\ y.source_epoch < z.source_epoch
            /\ \E B \in MigratedStores(db) :
                  /\ check_attestation(B, pk, z.source_epoch, MaxEpoch + 1, ZeroHash) = Valid
                  /\ check_attestation(B, pk, y.source_epoch, MaxEpoch + 1, ZeroHash).tag
                        = "SourceLessThanLowerBound"
                  /\ Surrounded(db, pk, y.source_epoch, MaxEpoch + 1) # {}

\* A validator with a stored block: the fresh store accepts a later block of the
\* validator and refuses one at the stored slot.
C37_WitnessBlock ==
    \E x \in BagToSet(db.signed_blocks), B \in MigratedStores(db) :
        LET pk == pubkey_from_str(db.validators[x.validator_id])
        IN  /\ check_block_proposal(B, pk, MaxSlot + 1, ZeroHash) = Valid
            /\ check_block_proposal(B, pk, x.slot, ZeroHash).tag = "SlotViolatesLowerBound"


(***************************************************************************)
(* SpecExport: export_interchange_info beside other callers of the same    *)
(* SlashingDatabase.  The export takes the connection of the pool twice:   *)
(* num_lower_bound_rows takes it, counts the rows of lower_bounds in a     *)
(* transaction of its own and gives it back; then                          *)
(* export_minimal_interchange_info or export_complete_interchange_info     *)
(* takes it again and reads the data in a second transaction.  Between     *)
(* the two a call that waits in conn_pool.get() can run.                   *)
(***************************************************************************)
ExportCall(count) == [op |-> "export", num_lower_bound_rows |-> count]

Exported(interchange) == [tag |-> "Ok", interchange |-> interchange]

\* A Minimal document with a block bound for validator 1.
ExportDocs == {MinimalDoc(<<MinimalRecord(1, Some(MaxSlot), None, None)>>)}

\* The registration of validator 1 and a block and an attestation of that validator.
ExportCalls == {RegisterCall(1), BlockCall(1, 0, 1), AttestationCall(1, 0, 1, 1)}

\* export_interchange_info, up to the conn_pool.get() of num_lower_bound_rows.
CallExport(t) ==
    /\ pc[t] \in {"idle", "done"}
    /\ pc' = [pc EXCEPT ![t] = "count_waiting"]
    /\ call' = [call EXCEPT ![t] = ExportCall(None)]
    /\ ret' = [ret EXCEPT ![t] = NotRun]
    /\ UNCHANGED <<db, conn, txn, lin, fileVars>>

\* conn_pool.get() and conn.transaction() of num_lower_bound_rows, and of the export
\* function chosen after it.
ExportAcquire(t) ==
    /\ pc[t] \in {"count_waiting", "data_waiting"}
    /\ Cardinality(conn) < POOL_SIZE
    /\ conn' = conn \cup {t}
    /\ txn' = [txn EXCEPT ![t] = [db |-> db, safe |-> None]]
    /\ pc' = [pc EXCEPT ![t] = IF pc[t] = "count_waiting" THEN "count" ELSE "data"]
    /\ UNCHANGED <<db, call, ret, lin, fileVars>>

\* conn_pool.get() of either fails after CONNECTION_TIMEOUT, and `?` returns the error.
ExportTimeout(t) ==
    /\ pc[t] \in {"count_waiting", "data_waiting"}
    /\ Cardinality(conn) >= POOL_SIZE
    /\ pc' = [pc EXCEPT ![t] = "done"]
    /\ ret' = [ret EXCEPT ![t] = SQLPoolError]
    /\ UNCHANGED <<db, conn, call, txn, lin, fileVars>>

\* The count of num_lower_bound_rows; its transaction and its connection are dropped
\* when it returns.
ExportCount(t) ==
    /\ pc[t] = "count"
    /\ call' = [call EXCEPT ![t] = ExportCall(Some(num_lower_bound_rows(txn[t].db)))]
    /\ conn' = conn \ {t}
    /\ txn' = [txn EXCEPT ![t] = NoTxn]
    /\ pc' = [pc EXCEPT ![t] = "data_waiting"]
    /\ UNCHANGED <<db, ret, lin, fileVars>>

\* The export function that the count selects reads the data in its transaction and
\* returns the document.
ExportData(t) ==
    /\ pc[t] = "data"
    /\ \E interchange \in
            (IF Unwrap(call[t].num_lower_bound_rows) > 0
             THEN export_minimal_interchange_info(txn[t].db, ClientRoot)
             ELSE export_complete_interchange_info(txn[t].db, ClientRoot)) :
          ret' = [ret EXCEPT ![t] = Exported(interchange)]
    /\ conn' = conn \ {t}
    /\ txn' = [txn EXCEPT ![t] = NoTxn]
    /\ pc' = [pc EXCEPT ![t] = "done"]
    /\ UNCHANGED <<db, call, lin, fileVars>>

NextExport ==
    \/ \E t \in Threads, c \in ExportCalls : Call(t, c)
    \/ \E t \in Threads, interchange \in ExportDocs : CallImport(t, interchange)
    \/ \E t \in Threads : CallExport(t)
    \/ \E t \in Threads : Acquire(t)
    \/ \E t \in Threads : Timeout(t)
    \/ \E t \in Threads : Check(t)
    \/ \E t \in Threads : Insert(t)
    \/ \E t \in Threads : ImportRegister(t)
    \/ \E t \in Threads : ImportRecords(t)
    \/ \E t \in Threads : Commit(t)
    \/ \E t \in Threads : ExportAcquire(t)
    \/ \E t \in Threads : ExportTimeout(t)
    \/ \E t \in Threads : ExportCount(t)
    \/ \E t \in Threads : ExportData(t)

SpecExport == Init /\ [][NextExport]_vars

\* C38: whenever export_interchange_info returns a document, and the committed state
\* that its export function read the data from has a row in lower_bounds, the document
\* is Minimal; also when a Minimal import commits while the export runs.
C38_FormatOfStateRead ==
    [][\A t \in Threads :
          (pc[t] = "data" /\ pc'[t] = "done" /\ txn[t].db.lower_bounds # {})
             => ret'[t].interchange.format = "Minimal"]_vars


(***************************************************************************)
(* Exports as input of the import.                                         *)
(***************************************************************************)
\* The lists with the elements of data in another order.
Reorderings(data) ==
    {[i \in 1..Len(data) |-> data[p[i]]] : p \in RowOrders(SetToBag(1..Len(data)))}

\* The store d, and d after one more validator was registered and signed a block.
WithOneMoreSigner(d) ==
    {d} \cup {check_and_insert_block_signing_root(
                 register_validator(d, pk).db, pk, slot, ZeroHash).db :
                 pk \in Keys, slot \in Slots}

\* C39: every document that export_interchange_info returns is imported without error
\* by a fresh store with the same genesis validators root. A Complete document is
\* imported without error with its records in any order (the blocks and attestations
\* of a record are exported in any order), and every block and attestation of it is
\* stored. In every record of a Minimal document the last signed attestation source
\* epoch is present exactly if the target epoch is.
C39_ExportIsImportable ==
    [](\A d \in WithOneMoreSigner(db) :
          \A doc \in export_interchange_info(d, ClientRoot) :
             /\ import_interchange_info(EmptyDb, doc, ClientRoot).res = OkUnit
             /\ doc.format = "Complete" =>
                   \A data \in Reorderings(doc.data) :
                      LET copy == import_interchange_info(
                                     EmptyDb, [doc EXCEPT !.data = data], ClientRoot)
                      IN  /\ copy.res = OkUnit
                          /\ BagCardinality(copy.db.signed_blocks)
                                = BagCardinality(d.signed_blocks)
                          /\ BagCardinality(copy.db.signed_attestations)
                                = BagCardinality(d.signed_attestations)
             /\ doc.format = "Minimal" =>
                   \A i \in 1..Len(doc.data) :
                      IsSome(doc.data[i].last_signed_attestation_source_epoch)
                         <=> IsSome(doc.data[i].last_signed_attestation_target_epoch))

\* A store without lower bounds in which a validator has two attestations, exported in
\* two orders, and with one more signer the export has two records; and the same
\* attestations listed with the later one first are imported by a fresh store.
C39_Witness ==
    /\ db.lower_bounds = {}
    /\ \E a \in BagToSet(db.signed_attestations), b \in BagToSet(db.signed_attestations) :
          a.validator_id = b.validator_id /\ a.target_epoch < b.target_epoch
    /\ Cardinality(export_interchange_info(db, ClientRoot)) = 2
    /\ \E d \in WithOneMoreSigner(db) :
          \E doc \in export_interchange_info(d, ClientRoot) :
             /\ Len(doc.data) = 2
             /\ Cardinality(Reorderings(doc.data)) = 2

\* A store with a lower bound and an attestation of the same validator: the record of
\* the Minimal export has both epochs, and a fresh store imports it.
C39_WitnessMinimal ==
    \E b \in db.lower_bounds, a \in BagToSet(db.signed_attestations) :
        /\ a.validator_id = b.validator_id
        /\ \E doc \in export_interchange_info(db, ClientRoot) :
              /\ doc.format = "Minimal"
              /\ \E i \in 1..Len(doc.data) :
                    IsSome(doc.data[i].last_signed_attestation_target_epoch)
              /\ import_interchange_info(EmptyDb, doc, ClientRoot).res = OkUnit

====
